---- MODULE Spec2Model ----
(***************************************************************************)
(* Model of the atlcli export package: the placeholder dialect translator  *)
(* and macro-enabled-format converter (docm_support.py), the renderer      *)
(* (docx_renderer.py), the context builder (context.py) and the CLI        *)
(* (cli.py).                                                               *)
(*                                                                         *)
(* XML text is modelled as a sequence of lexemes: every tag is one lexeme, *)
(* every maximal run of word characters is one lexeme, and every other     *)
(* character is one lexeme.  The regular expressions of the source are     *)
(* translated to scans over these lexemes.                                 *)
(***************************************************************************)
EXTENDS Integers, Sequences, FiniteSets, TLC

(***************************************************************************)
(* Lexemes                                                                 *)
(***************************************************************************)

\* the quote character
QUOTE == "\""

\* tags that occur in the modelled parts
Tags ==
    {"<w:p>", "</w:p>", "<w:r>", "</w:r>", "<w:t>", "</w:t>",
     "<w:pPr>", "</w:pPr>", "<w:sectPr/>", "<w:rPr/>",
     "<w:p/>", "<w:p w:rsidR=\"1\"/>"}

\* runs of [a-zA-Z0-9] that start with a letter
Words ==
    {"scroll", "title", "content", "creator", "fullName", "email", "modifier",
     "creationdate", "modificationdate", "pageid", "pageurl", "tinyurl",
     "pagelabels", "space", "key", "name", "url", "exporter", "exportdate",
     "template", "author", "authorEmail", "modifierEmail", "created",
     "modified", "pageId", "pageUrl", "tinyUrl", "labels", "spaceKey",
     "spaceName", "spaceUrl", "exportedBy", "exportDate", "templateName",
     "Hello", "foo", "yyyy", "MM", "p"}

IsTag(t) == t \in Tags

\* [a-zA-Z][a-zA-Z0-9]* : may start a variable name
IsWord(t) == t \in Words

\* a lexeme made of characters of the class [a-zA-Z0-9.]
IsNameChar(t) == IsWord(t) \/ t = "."

\* \s
IsSpace(t) == t = " "

\* <w:t[^>]*> : an opening tag whose name starts with w:t
IsWtOpen(t) == t = "<w:t>"

\* a tag that starts with the four characters <w:p
StartsWithWP(t) == t \in {"<w:p>", "<w:pPr>", "<w:p/>", "<w:p w:rsidR=\"1\"/>"}

\* <w:p followed by a blank or by >
IsParaOpen(t) == t \in {"<w:p>", "<w:p w:rsidR=\"1\"/>"}

\* </w:p followed by a blank or by >
IsParaClose(t) == t = "</w:p>"

\* a tag that starts with <w:pPr
StartsWithPPr(t) == t = "<w:pPr>"

\* a tag that starts with <w:sectPr
StartsWithSectPr(t) == t = "<w:sectPr/>"

\* xs[a..b], empty when a > b
Slice(xs, a, b) == IF a > b THEN << >> ELSE SubSeq(xs, a, b)

\* the least element of a set of indices, or 0 when it is empty
FirstIdx(S) == IF S = {} THEN 0 ELSE CHOOSE i \in S : \A j \in S : i <= j

(***************************************************************************)
(* Scroll placeholder mappings (SCROLL_MAPPINGS.get(scroll_var, scroll_var))*)
(***************************************************************************)
SCROLL_MAPPINGS(name) ==
    CASE name = <<"title">> -> <<"title">>
      [] name = <<"content">> -> <<"content">>
      [] name = <<"creator", ".", "fullName">> -> <<"author">>
      [] name = <<"creator", ".", "email">> -> <<"authorEmail">>
      [] name = <<"modifier", ".", "fullName">> -> <<"modifier">>
      [] name = <<"modifier", ".", "email">> -> <<"modifierEmail">>
      [] name = <<"creationdate">> -> <<"created">>
      [] name = <<"modificationdate">> -> <<"modified">>
      [] name = <<"pageid">> -> <<"pageId">>
      [] name = <<"pageurl">> -> <<"pageUrl">>
      [] name = <<"tinyurl">> -> <<"tinyUrl">>
      [] name = <<"pagelabels">> -> <<"labels">>
      [] name = <<"space", ".", "key">> -> <<"spaceKey">>
      [] name = <<"space", ".", "name">> -> <<"spaceName">>
      [] name = <<"space", ".", "url">> -> <<"spaceUrl">>
      [] name = <<"exporter", ".", "fullName">> -> <<"exportedBy">>
      [] name = <<"exportdate">> -> <<"exportDate">>
      [] name = <<"template", ".", "name">> -> <<"templateName">>
      [] OTHER -> name

(***************************************************************************)
(* normalize_split_placeholders                                            *)
(*   (\$)(</w:t>)((?:</w:r>)?(?:<[^>]+>)*?)(<w:t[^>]*>)(!?scroll\.)         *)
(***************************************************************************)

\* the first lexeme at or after from that is not a tag, or Len(xs) + 1
FirstNonTag(xs, from) ==
    LET S == {k \in from..Len(xs) : ~IsTag(xs[k])}
    IN IF S = {} THEN Len(xs) + 1 ELSE FirstIdx(S)

\* mutant: the $ has to be the whole text of its run
SplitMatchEndWholeRun(xs, i) ==
    IF ~(/\ i > 1 /\ i + 1 <= Len(xs) /\ IsWtOpen(xs[i - 1])
         /\ xs[i] = "$" /\ xs[i + 1] = "</w:t>") THEN 0
    ELSE LET j == FirstNonTag(xs, i + 2)
         IN IF j > Len(xs) \/ j - 1 < i + 2 THEN 0
            ELSE IF ~IsWtOpen(xs[j - 1]) THEN 0
            ELSE LET s == IF xs[j] = "!" THEN j + 1 ELSE j
                 IN IF s + 1 <= Len(xs) /\ xs[s] = "scroll" /\ xs[s + 1] = "."
                    THEN s + 1 ELSE 0

\* the index of the last lexeme of the match that starts at i, or 0
SplitMatchEnd(xs, i) ==
    IF ~(i + 1 <= Len(xs) /\ xs[i] = "$" /\ xs[i + 1] = "</w:t>") THEN 0
    ELSE LET j == FirstNonTag(xs, i + 2)
         IN IF j > Len(xs) \/ j - 1 < i + 2 THEN 0
            ELSE IF ~IsWtOpen(xs[j - 1]) THEN 0
            ELSE LET s == IF xs[j] = "!" THEN j + 1 ELSE j
                 IN IF s + 1 <= Len(xs) /\ xs[s] = "scroll" /\ xs[s + 1] = "."
                    THEN s + 1 ELSE 0

\* mutant: the groups are returned in the order they were matched
MoveDollarNowhere(xs, i, e) == Slice(xs, i, e)

\* move_dollar: groups 2, 3, 4, then the $ of group 1, then group 5
move_dollar(xs, i, e) ==
    LET j == FirstNonTag(xs, i + 2)
    IN Slice(xs, i + 1, j - 1) \o <<xs[i]>> \o Slice(xs, j, e)

RECURSIVE NormalizeFrom(_, _)
NormalizeFrom(xs, i) ==
    IF i > Len(xs) THEN << >>
    ELSE LET e == SplitMatchEnd(xs, i)
         IN IF e = 0 THEN <<xs[i]>> \o NormalizeFrom(xs, i + 1)
            ELSE move_dollar(xs, i, e) \o NormalizeFrom(xs, e + 1)

normalize_split_placeholders(xml_content) == NormalizeFrom(xml_content, 1)

(***************************************************************************)
(* convert_scroll_placeholders                                             *)
(*   \$(!)?scroll\.([a-zA-Z][a-zA-Z0-9.]*?)(?:\.?\("([^"]+)"\))?            *)
(*   (?=\s|<|$|[^\w.])                                                     *)
(***************************************************************************)

\* the lookahead at position p: the end of the text, or a character that is
\* neither a word character nor a dot
Lookahead(xs, p) == p > Len(xs) \/ ~IsNameChar(xs[p])

\* the date clause \.?\("([^"]+)"\) at position p: the index of its closing
\* parenthesis, or 0
DateClauseEnd(xs, p) ==
    LET q == IF p <= Len(xs) /\ xs[p] = "." THEN p + 1 ELSE p
    IN IF ~(q + 1 <= Len(xs) /\ xs[q] = "(" /\ xs[q + 1] = QUOTE) THEN 0
       ELSE LET r == FirstIdx({k \in (q + 2)..Len(xs) : xs[k] = QUOTE})
            IN IF r > q + 2 /\ r + 1 <= Len(xs) /\ xs[r + 1] = ")"
               THEN r + 1 ELSE 0

\* group 3 of a date clause that ends at index d (its closing parenthesis)
DateFormat(xs, p, d) ==
    LET q == IF xs[p] = "." THEN p + 1 ELSE p
    IN Slice(xs, q + 2, d - 2)

\* the date clause at p counts when the lookahead holds behind it
DateMatches(xs, p) ==
    DateClauseEnd(xs, p) # 0 /\ Lookahead(xs, DateClauseEnd(xs, p) + 1)

\* the lazy name: the least end e >= cur of the name such that the rest of
\* the pattern matches behind it, or 0
RECURSIVE NameEnd(_, _)
NameEnd(xs, cur) ==
    IF DateMatches(xs, cur + 1) \/ Lookahead(xs, cur + 1) THEN cur
    ELSE IF cur + 1 <= Len(xs) /\ IsNameChar(xs[cur + 1]) THEN NameEnd(xs, cur + 1)
    ELSE 0

\* the match that starts at i: [ok, null_safe, n0, e, last]
ScrollMatch(xs, i) ==
    LET fail == [ok |-> FALSE, null_safe |-> FALSE, n0 |-> 0, e |-> 0, last |-> 0]
    IN IF ~(i <= Len(xs) /\ xs[i] = "$") THEN fail
       ELSE LET null_safe == i + 1 <= Len(xs) /\ xs[i + 1] = "!"
                k == IF null_safe THEN i + 2 ELSE i + 1
            IN IF ~(k + 2 <= Len(xs) /\ xs[k] = "scroll" /\ xs[k + 1] = "."
                    /\ IsWord(xs[k + 2])) THEN fail
               ELSE LET e == NameEnd(xs, k + 2)
                    IN IF e = 0 THEN fail
                       ELSE [ok |-> TRUE, null_safe |-> null_safe, n0 |-> k + 2,
                             e |-> e,
                             last |-> IF DateMatches(xs, e + 1)
                                      THEN DateClauseEnd(xs, e + 1) ELSE e]

\* mutant: the prefix of the token is kept in front of the variable
ConvertPlaceholderKeepsPrefix(xs, m) ==
    <<"{{", " ", "$", "scroll", ".">> \o SCROLL_MAPPINGS(Slice(xs, m.n0, m.e))
        \o <<" ", "}}">>

\* convert_scroll_placeholder: the replacement of one match
convert_scroll_placeholder(xs, m) ==
    LET jinja_var == SCROLL_MAPPINGS(Slice(xs, m.n0, m.e))
        date_filter ==
            IF m.last # m.e
            THEN <<<<"date('">> \o DateFormat(xs, m.e + 1, m.last) \o <<"')">>>>
            ELSE << >>
        default_filter ==
            IF m.null_safe THEN <<<<"default('')">>>> ELSE << >>
        filters == date_filter \o default_filter
        joined ==
            IF Len(filters) = 2 THEN filters[1] \o <<" ", "|", " ">> \o filters[2]
            ELSE IF Len(filters) = 1 THEN filters[1] ELSE << >>
    IN IF filters # << >>
       THEN <<"{{", " ">> \o jinja_var \o <<" ", "|", " ">> \o joined \o <<" ", "}}">>
       ELSE <<"{{", " ">> \o jinja_var \o <<" ", "}}">>

RECURSIVE ConvertFrom(_, _)
ConvertFrom(xs, i) ==
    IF i > Len(xs) THEN << >>
    ELSE LET m == ScrollMatch(xs, i)
         IN IF m.ok THEN convert_scroll_placeholder(xs, m) \o ConvertFrom(xs, m.last + 1)
            ELSE <<xs[i]>> \o ConvertFrom(xs, i + 1)

convert_scroll_placeholders(text) == ConvertFrom(text, 1)

(***************************************************************************)
(* fix_content_placeholder_level                                           *)
(***************************************************************************)

\* \{\{\s*content\s*\}\} matches at i
ContentPlaceholderAt(xs, i) ==
    /\ xs[i] = "{{"
    /\ LET a == FirstIdx({k \in (i + 1)..Len(xs) : ~IsSpace(xs[k])})
       IN /\ a # 0
          /\ xs[a] = "content"
          /\ LET b == FirstIdx({k \in (a + 1)..Len(xs) : ~IsSpace(xs[k])})
             IN b # 0 /\ xs[b] = "}}"

\* content_placeholder.search(xs)
HasContentPlaceholder(xs) == \E i \in 1..Len(xs) : ContentPlaceholderAt(xs, i)

\* the depth scan from j: the index of the </w:p that brings the depth back
\* to 0, or 0 when the text ends first (p_end = -1)
RECURSIVE ParagraphEnd(_, _, _)
ParagraphEnd(xs, j, depth) ==
    IF j > Len(xs) THEN 0
    ELSE IF IsParaOpen(xs[j]) THEN ParagraphEnd(xs, j + 1, depth + 1)
    ELSE IF IsParaClose(xs[j])
         THEN IF depth - 1 = 0 THEN j ELSE ParagraphEnd(xs, j + 1, depth - 1)
    ELSE ParagraphEnd(xs, j + 1, depth)

\* the replacement of a paragraph that holds the content placeholder
ContentReplacement(paragraph) ==
    LET a == FirstIdx({k \in 1..Len(paragraph) : StartsWithPPr(paragraph[k])})
        b == IF a = 0 THEN 0
             ELSE FirstIdx({k \in (a + 1)..Len(paragraph) : paragraph[k] = "</w:pPr>"})
        ppr_xml == IF b = 0 THEN << >> ELSE Slice(paragraph, a, b)
        has_sect == \E k \in 1..Len(ppr_xml) : StartsWithSectPr(ppr_xml[k])
    IN IF has_sect
       THEN <<"{{p content }}">> \o <<"<w:p>">> \o ppr_xml \o <<"</w:p>">>
       ELSE <<"{{p content }}">>

RECURSIVE replace_content_paragraph(_, _)
replace_content_paragraph(xml, i) ==
    IF i > Len(xml) THEN << >>
    ELSE LET p_start == FirstIdx({k \in i..Len(xml) : StartsWithWP(xml[k])})
         IN IF p_start = 0 THEN Slice(xml, i, Len(xml))
            ELSE LET p_end == ParagraphEnd(xml, p_start, 0)
                 IN IF p_end = 0 THEN Slice(xml, i, Len(xml))
                    ELSE LET paragraph == Slice(xml, p_start, p_end)
                         IN Slice(xml, i, p_start - 1)
                            \o (IF HasContentPlaceholder(paragraph)
                                THEN ContentReplacement(paragraph)
                                ELSE paragraph)
                            \o replace_content_paragraph(xml, p_end + 1)

fix_content_placeholder_level(xml_content) ==
    IF ~HasContentPlaceholder(xml_content) THEN xml_content
    ELSE replace_content_paragraph(xml_content, 1)

(***************************************************************************)
(* Packages                                                                *)
(*                                                                         *)
(* The bytes of a part are a record: utf8 tells whether they decode as     *)
(* UTF-8, text is the decoded text (or, for bytes that do not decode, a    *)
(* name of the payload).  A file is a record: kind is "missing", "notzip"  *)
(* (not a readable archive) or "zip", and parts maps the part names of the *)
(* archive (namelist) to their bytes.                                      *)
(***************************************************************************)

DOCM_CONTENT_TYPE == "application/vnd.ms-word.document.macroEnabled.main+xml"
DOCX_CONTENT_TYPE ==
    "application/vnd.openxmlformats-officedocument.wordprocessingml.document.main+xml"

CONTENT_TYPES == "[Content_Types].xml"

\* XML files that may contain placeholders
xml_files ==
    {"word/document.xml", "word/header1.xml", "word/header2.xml",
     "word/header3.xml", "word/footer1.xml", "word/footer2.xml",
     "word/footer3.xml"}

\* bytes.decode('utf-8') succeeds
Decodes(bytes) == bytes.utf8

\* bytes.decode('utf-8')
decode(bytes) == bytes.text

\* str.encode('utf-8')
encode(text) == [utf8 |-> TRUE, text |-> text]

\* content_types.replace(DOCM_CONTENT_TYPE, DOCX_CONTENT_TYPE)
ReplaceContentType(text) ==
    [i \in 1..Len(text) |->
        IF text[i] = DOCM_CONTENT_TYPE THEN DOCX_CONTENT_TYPE ELSE text[i]]

\* mutant: translation runs before split-repair
TranslatePartConvertFirst(content) ==
    fix_content_placeholder_level(
        normalize_split_placeholders(convert_scroll_placeholders(content)))

\* the translator pipeline on the decoded text of one part
TranslatePart(content) ==
    LET normalized == normalize_split_placeholders(content)
        converted == convert_scroll_placeholders(normalized)
        fixed == fix_content_placeholder_level(converted)
    IN fixed

\* mutant: a part that does not decode is written empty
ConvertItemDropsUndecodable(bytes) ==
    IF Decodes(bytes) THEN encode(TranslatePart(decode(bytes))) ELSE encode(<< >>)

\* the try/except of the conversion loops: a part that does not decode is
\* copied as it is
ConvertItem(bytes) ==
    IF Decodes(bytes) THEN encode(TranslatePart(decode(bytes))) ELSE bytes

\* the exception convert_docm_to_docx raises on file, or "None"; every one of
\* them is raised after tempfile.mkdtemp and before the output archive is
\* opened
DocmRaises(file) ==
    IF file.kind = "missing" THEN "FileNotFoundError"
    ELSE IF file.kind = "notzip" THEN "BadZipFile"
    ELSE IF CONTENT_TYPES \notin DOMAIN file.parts THEN "KeyError"
    ELSE IF ~Decodes(file.parts[CONTENT_TYPES]) THEN "UnicodeDecodeError"
    ELSE "None"

\* mutant: the test "item in xml_files" is left out
ConvertDocmAllParts(parts, convert_placeholders) ==
    [item \in DOMAIN parts |->
        IF item = CONTENT_TYPES
        THEN encode(ReplaceContentType(decode(parts[item])))
        ELSE IF convert_placeholders
        THEN ConvertItem(parts[item])
        ELSE parts[item]]

\* the parts convert_docm_to_docx writes for an archive it can read
convert_docm_to_docx(parts, convert_placeholders) ==
    [item \in DOMAIN parts |->
        IF item = CONTENT_TYPES
        THEN encode(ReplaceContentType(decode(parts[item])))
        ELSE IF convert_placeholders /\ item \in xml_files
        THEN ConvertItem(parts[item])
        ELSE parts[item]]

\* the parts convert_docx_placeholders writes
convert_docx_placeholders(parts) ==
    [item \in DOMAIN parts |->
        IF item \in xml_files THEN ConvertItem(parts[item]) ELSE parts[item]]

\* mutant: the test for '$!scroll.' is left out
ContainsScrollPlainOnly(xs) ==
    \E i \in 1..Len(xs) :
        /\ xs[i] = "$"
        /\ i + 2 <= Len(xs) /\ xs[i + 1] = "scroll" /\ xs[i + 2] = "."

\* '$scroll.' in content or '$!scroll.' in content
ContainsScroll(xs) ==
    \E i \in 1..Len(xs) :
        /\ xs[i] = "$"
        /\ \/ i + 2 <= Len(xs) /\ xs[i + 1] = "scroll" /\ xs[i + 2] = "."
           \/ /\ i + 3 <= Len(xs)
              /\ xs[i + 1] = "!" /\ xs[i + 2] = "scroll" /\ xs[i + 3] = "."

\* has_scroll_placeholders for a file that exists (BadZipFile is caught, a
\* part that does not decode is skipped)
has_scroll_placeholders(file) ==
    IF file.kind = "notzip" THEN FALSE
    ELSE \E item \in DOMAIN file.parts :
            /\ item \in xml_files
            /\ Decodes(file.parts[item])
            /\ ContainsScroll(decode(file.parts[item]))

\* str(path).lower()
Lower(suffix) == IF suffix = ".DOCM" THEN ".docm" ELSE suffix

\* is_docm_file
is_docm_file(path) == Lower(path.suffix) = ".docm"

(***************************************************************************)
(* DocmConverter                                                           *)
(*                                                                         *)
(* A path is a record [dir, stem, suffix]; NonePath and "None" stand for   *)
(* Python's None.                                                          *)
(***************************************************************************)

NoFile == [kind |-> "missing", parts |-> << >>]

NonePath == [dir |-> "None", stem |-> "None", suffix |-> "None"]

\* mutant: mkdtemp hands out the directory of the template
TempDirIsTemplateDir == "templates"

\* the directory tempfile.mkdtemp(prefix="atlcli_export_") creates
TEMP_DIR == "atlcli_export_1"

\* DocmConverter.__init__
DocmConverter_init(template_path, convert_placeholders) ==
    [original_path |-> template_path,
     converted_path |-> NonePath,
     temp_dir |-> "None",
     convert_placeholders |-> convert_placeholders]

\* mutant: the placeholder test comes before the .docm test
EnterBranchPlaceholdersFirst(self, file) ==
    IF self.convert_placeholders /\ file.kind = "missing" THEN "detect_fails"
    ELSE IF self.convert_placeholders /\ has_scroll_placeholders(file)
    THEN "placeholders"
    ELSE IF is_docm_file(self.original_path) THEN "docm"
    ELSE "passthrough"

\* the branch __enter__ takes: "detect_fails" when zipfile.ZipFile raises
\* FileNotFoundError in has_scroll_placeholders
EnterBranch(self, file) ==
    IF is_docm_file(self.original_path) THEN "docm"
    ELSE IF self.convert_placeholders /\ file.kind = "missing" THEN "detect_fails"
    ELSE IF self.convert_placeholders /\ has_scroll_placeholders(file)
    THEN "placeholders"
    ELSE "passthrough"

\* DocmConverter.__enter__ on a converter self whose original_path names file:
\* whether a temporary directory is made, the exception raised (or "None"),
\* the file written into the temporary directory, the fields assigned and the
\* path returned
DocmConverter_enter(self, file) ==
    LET branch == EnterBranch(self, file)
        raises == [mkdtemp |-> FALSE, raised |-> "None", written |-> NoFile,
                   converted_path |-> self.converted_path,
                   temp_dir |-> self.temp_dir, returns |-> NonePath]
    IN IF branch = "docm"
       THEN LET temp_docx == [dir |-> TEMP_DIR,
                              stem |-> self.original_path.stem,
                              suffix |-> ".docx"]
            IN IF DocmRaises(file) # "None"
               THEN [raises EXCEPT !.mkdtemp = TRUE, !.raised = DocmRaises(file)]
               ELSE [mkdtemp |-> TRUE, raised |-> "None",
                     written |-> [kind |-> "zip",
                                  parts |-> convert_docm_to_docx(
                                                file.parts,
                                                self.convert_placeholders)],
                     converted_path |-> temp_docx,
                     temp_dir |-> temp_docx.dir,
                     returns |-> temp_docx]
       ELSE IF branch = "detect_fails"
       THEN [raises EXCEPT !.raised = "FileNotFoundError"]
       ELSE IF branch = "placeholders"
       THEN LET temp_docx == [dir |-> TEMP_DIR,
                              stem |-> self.original_path.stem,
                              suffix |-> self.original_path.suffix]
            IN [mkdtemp |-> TRUE, raised |-> "None",
                written |-> [kind |-> "zip",
                             parts |-> convert_docx_placeholders(file.parts)],
                converted_path |-> temp_docx,
                temp_dir |-> temp_docx.dir,
                returns |-> temp_docx]
       ELSE [raises EXCEPT !.returns = self.original_path]

\* mutant: __exit__ returns True
DocmConverterExitSuppresses(self, dirs) ==
    [dirs |-> IF self.temp_dir # "None" THEN dirs \ {self.temp_dir} ELSE dirs,
     suppress |-> TRUE]

\* DocmConverter.__exit__: the directories left by shutil.rmtree(temp_dir,
\* ignore_errors=True), and the value returned (False: do not suppress)
DocmConverter_exit(self, dirs) ==
    [dirs |-> IF self.temp_dir # "None" THEN dirs \ {self.temp_dir} ELSE dirs,
     suppress |-> FALSE]

(***************************************************************************)
(* Renderer                                                                *)
(***************************************************************************)

\* the keyword arguments build_context passes to MarkdownToWordConverter
BuildContextKeywords ==
    {"images", "macro_children", "content_by_label", "render_toc_macro"}

\* the parameters MarkdownToWordConverter.__init__ declares
ConverterInitParams ==
    {"template", "images", "macro_children", "content_by_label"}

\* build_context: the exception raised by the construction of the markdown
\* converter, or "None"
build_context_raises ==
    IF BuildContextKeywords \subseteq ConverterInitParams
    THEN "None" ELSE "TypeError"

\* DocxTemplate(str(usable_template)) loads: the document-model library
\* accepts a readable package that declares the standard main-document type
\* and holds a main document part
LoadOk(file) ==
    /\ file.kind = "zip"
    /\ CONTENT_TYPES \in DOMAIN file.parts
    /\ Decodes(file.parts[CONTENT_TYPES])
    /\ \E i \in 1..Len(decode(file.parts[CONTENT_TYPES])) :
           decode(file.parts[CONTENT_TYPES])[i] = DOCX_CONTENT_TYPE
    /\ "word/document.xml" \in DOMAIN file.parts
    /\ Decodes(file.parts["word/document.xml"])

\* the body of the with statement of render_template on the usable template:
\* the exception raised (or "None") and the stages completed
render_body(file) ==
    IF ~LoadOk(file)
    THEN [exc |-> "PackageNotFoundError", stages |-> << >>]
    ELSE IF build_context_raises # "None"
    THEN [exc |-> build_context_raises, stages |-> <<"load">>]
    ELSE [exc |-> "None", stages |-> <<"load", "context", "render", "save">>]

\* A document body is the sequence of its structured document tags; a tag
\* has the value of its docPartGallery element and its field characters in
\* document order.
TOC_GALLERY == "Table of Contents"

\* _is_toc_sdt
_is_toc_sdt(sdt) == sdt.gallery = TOC_GALLERY

\* _has_toc_field
_has_toc_field(docx) == \E i \in 1..Len(docx) : _is_toc_sdt(docx[i])

\* the inner loop of _mark_toc_dirty: dirty is set on the first fldChar of
\* the tag with fldCharType="begin"
MarkFirstBegin(flds) ==
    LET b == FirstIdx({k \in 1..Len(flds) : flds[k].type = "begin"})
    IN [k \in 1..Len(flds) |->
           IF k = b THEN [flds[k] EXCEPT !.dirty = TRUE] ELSE flds[k]]

\* mutant: the outer loop stops at the first Table of Contents
MarkTocDirtyFirstOnly(docx) ==
    LET first == FirstIdx({k \in 1..Len(docx) : _is_toc_sdt(docx[k])})
    IN [i \in 1..Len(docx) |->
           IF i = first
           THEN [docx[i] EXCEPT !.flds = MarkFirstBegin(docx[i].flds)]
           ELSE docx[i]]

\* _mark_toc_dirty: the document it leaves
_mark_toc_dirty(docx) ==
    [i \in 1..Len(docx) |->
        IF _is_toc_sdt(docx[i])
        THEN [docx[i] EXCEPT !.flds = MarkFirstBegin(docx[i].flds)]
        ELSE docx[i]]

\* the post-processing of render_template: the document saved last and the
\* value of has_toc
post_process(final_doc, no_toc_prompt) ==
    LET has_toc == _has_toc_field(final_doc)
    IN [doc |-> IF has_toc /\ ~no_toc_prompt
                THEN _mark_toc_dirty(final_doc) ELSE final_doc,
        has_toc |-> has_toc]

(***************************************************************************)
(* CLI                                                                     *)
(***************************************************************************)

\* the --output argument
OUTPUT_PATH == "out/page.docx"

\* Python values: a Path and the tuple (Path, bool)
PyPath(p) == [type |-> "Path", items |-> <<p>>]
PyTuple(p, b) == [type |-> "tuple", items |-> <<p, b>>]

\* str(value): the path text for a Path, the repr of the tuple for a tuple
PyStr(v) == [str_of |-> v.type, items |-> v.items]

Success(output) == [success |-> TRUE, output |-> output]
Failure(error) == [success |-> FALSE, error |-> error]

\* mutant: the missing-template branch prints but does not return
MainBeforeRenderNoReturn(input, file) ==
    IF input = "invalid_json"
    THEN [print |-> <<Failure("Invalid JSON input")>>, ret |-> 1, render |-> FALSE]
    ELSE IF input = "unreadable"
    THEN [print |-> <<Failure("OSError")>>, ret |-> 1, render |-> FALSE]
    ELSE IF file.kind = "missing"
    THEN [print |-> <<Failure("Template not found")>>, ret |-> 1, render |-> TRUE]
    ELSE [print |-> << >>, ret |-> -1, render |-> TRUE]

\* main before the call of render_template: reading the page data and
\* validating the template; what is printed, the value returned (-1: none
\* yet) and whether render_template is called
main_before_render(input, file) ==
    IF input = "invalid_json"
    THEN [print |-> <<Failure("Invalid JSON input")>>, ret |-> 1, render |-> FALSE]
    ELSE IF input = "unreadable"
    THEN [print |-> <<Failure("OSError")>>, ret |-> 1, render |-> FALSE]
    ELSE IF file.kind = "missing"
    THEN [print |-> <<Failure("Template not found")>>, ret |-> 1, render |-> FALSE]
    ELSE [print |-> << >>, ret |-> -1, render |-> TRUE]

\* main after render_template: the success response, or the handler of
\* "except Exception"
main_after_render(exception, output_path) ==
    IF exception = "None"
    THEN [print |-> <<Success(PyStr(output_path))>>, ret |-> 0]
    ELSE [print |-> <<Failure(exception)>>, ret |-> 1]

(***************************************************************************)
(* Inputs                                                                  *)
(***************************************************************************)

\* decoded texts of document, header and footer parts
T_plain ==
    <<"<w:p>", "<w:r>", "<w:t>", "Hello", "</w:t>", "</w:r>", "</w:p>">>

T_native ==
    <<"<w:p>", "<w:r>", "<w:t>", "{{", " ", "title", " ", "}}", "</w:t>",
      "</w:r>", "</w:p>">>

T_legacy ==
    <<"<w:p>", "<w:r>", "<w:t>", "$", "scroll", ".", "creator", ".",
      "fullName", "</w:t>", "</w:r>", "</w:p>">>

\* the $ of $scroll.content split into a run of its own, in a paragraph
\* that carries a section break
T_split_content ==
    <<"<w:p>", "<w:pPr>", "<w:sectPr/>", "</w:pPr>", "<w:r>", "<w:t>", "$",
      "</w:t>", "</w:r>", "<w:r>", "<w:rPr/>", "<w:t>", "scroll", ".",
      "content", "</w:t>", "</w:r>", "</w:p>">>

T_header ==
    <<"<w:p>", "<w:r>", "<w:t>", "$", "!", "scroll", ".", "creationdate", ".",
      "(", QUOTE, "yyyy", QUOTE, ")", "</w:t>", "</w:r>", "</w:p>">>

\* bytes that are not valid UTF-8
Undecodable == [utf8 |-> FALSE, text |-> <<"bytes">>]

\* the macro payload
VbaProject == [utf8 |-> FALSE, text |-> <<"vbaProject">>]

\* a part left out of the archive
Absent == [utf8 |-> FALSE, text |-> <<"absent">>]

ContentTypesDocm == <<"<Types>", DOCM_CONTENT_TYPE, "</Types>">>
ContentTypesDocx == <<"<Types>", DOCX_CONTENT_TYPE, "</Types>">>

PartNames ==
    {CONTENT_TYPES, "word/document.xml", "word/header1.xml",
     "word/vbaProject.bin", "customXml/item1.xml"}

PartChoices(name) ==
    IF name = CONTENT_TYPES
    THEN {encode(ContentTypesDocm), encode(ContentTypesDocx), Undecodable, Absent}
    ELSE IF name = "word/document.xml"
    THEN {encode(T_plain), encode(T_native), encode(T_legacy),
          encode(T_split_content), Undecodable}
    ELSE IF name = "word/header1.xml"
    THEN {encode(T_header), Undecodable, Absent}
    ELSE IF name = "word/vbaProject.bin"
    THEN {VbaProject, Absent}
    ELSE {encode(T_legacy), Absent}

\* the archive that holds the parts of c that are not left out
Package(c) ==
    [kind |-> "zip",
     parts |-> [n \in {m \in PartNames : c[m] # Absent} |-> c[n]]]

TemplateFiles ==
    {NoFile, [kind |-> "notzip", parts |-> << >>]}
        \cup {Package(c) : c \in {f \in [PartNames -> UNION {PartChoices(n) : n \in PartNames}] :
                                     \A n \in PartNames : f[n] \in PartChoices(n)}}

TemplatePaths ==
    {[dir |-> "templates", stem |-> "basic-template", suffix |-> x] :
        x \in {".docx", ".docm", ".DOCM"}}

\* the documents the native template rendering may save: up to MaxSdts
\* structured document tags with up to MaxFlds field characters each
MaxSdts == 2
MaxFlds == 2

FldChars == [type : {"begin", "end"}, dirty : {FALSE}]

SeqsUpTo(S, n) == UNION {[1..k -> S] : k \in 0..n}

Sdts == [gallery : {TOC_GALLERY, "Bibliographies"}, flds : SeqsUpTo(FldChars, MaxFlds)]

FinalDocs == SeqsUpTo(Sdts, MaxSdts)

NoDoc == [exists |-> FALSE, sdts |-> << >>]

NoResult == [type |-> "None", items |-> << >>]

(***************************************************************************)
(* State                                                                   *)
(***************************************************************************)
VARIABLES
    pc,             \* the position of the run
    entry,          \* "cli": main; "api": a with statement over DocmConverter
    input,          \* the page data on standard input or in the --input file
    page_data,      \* the page data read: [noTocPrompt]
    template_path,  \* the --template argument / the constructor argument
    template_file,  \* the file template_path names
    conv,           \* the DocmConverter object
    tempdirs,       \* the temporary directories that exist
    temp_file,      \* the file in the temporary directory
    usable,         \* the path __enter__ returned
    exc,            \* the exception in flight, or "None"
    stdout,         \* the JSON objects printed
    exit_code,      \* the value main returned, -1 before
    stages,         \* the stages of render_template completed, in order
    releases,       \* the number of calls of __exit__
    render_calls,   \* the number of calls of render_template
    output_file,    \* the file at the --output path
    result,         \* the value render_template returned
    arg,            \* the argument of a call of a function of the package
    ret,            \* the argument and the values returned so far, in order
    calls           \* the functions called so far, in order

vars ==
    <<pc, entry, input, page_data, template_path, template_file, conv,
      tempdirs, temp_file, usable, exc, stdout, exit_code, stages, releases,
      render_calls, output_file, result, arg, ret, calls>>

\* the variables of a call of a function of the package
callvars == <<arg, ret, calls>>

\* no function of the package is called on its own
NoCall == arg = << >> /\ ret = << >> /\ calls = << >>

Unconstructed == DocmConverter_init(NonePath, FALSE)

Init ==
    /\ entry \in {"cli", "api"}
    /\ pc = IF entry = "cli" THEN "main" ELSE "construct"
    /\ input \in IF entry = "cli"
                 THEN {"valid", "not_object", "invalid_json", "unreadable"}
                 ELSE {"valid"}
    /\ page_data \in IF entry = "cli" /\ input = "valid"
                     THEN [noTocPrompt : BOOLEAN]
                     ELSE {[noTocPrompt |-> FALSE]}
    /\ template_path \in TemplatePaths
    /\ template_file \in TemplateFiles
    /\ conv = Unconstructed
    /\ tempdirs = {}
    /\ temp_file = NoFile
    /\ usable = NonePath
    /\ exc = "None"
    /\ stdout = << >>
    /\ exit_code = -1
    /\ stages = << >>
    /\ releases = 0
    /\ render_calls = 0
    /\ output_file = NoDoc
    /\ result = NoResult
    /\ NoCall

\* the file a path names
FileAt(path) == IF path.dir = TEMP_DIR THEN temp_file ELSE template_file

(***************************************************************************)
(* Actions                                                                 *)
(***************************************************************************)

\* main up to the call of render_template
CliMain ==
    /\ pc = "main"
    /\ LET r == main_before_render(input, template_file)
       IN /\ stdout' = stdout \o r.print
          /\ exit_code' = r.ret
          /\ render_calls' = IF r.render THEN render_calls + 1 ELSE render_calls
          /\ pc' = IF r.render THEN "render" ELSE "exited"
    /\ UNCHANGED callvars
    /\ UNCHANGED <<entry, input, page_data, template_path, template_file, conv,
                   tempdirs, temp_file, usable, exc, stages, releases,
                   output_file, result>>

\* render_template up to the with statement: page_data.get raises on page
\* data that is no object; DocmConverter(template_path) is constructed
RenderStart ==
    /\ pc = "render"
    /\ IF input = "not_object"
       THEN /\ exc' = "AttributeError"
            /\ pc' = "main_except"
            /\ conv' = conv
       ELSE /\ exc' = exc
            /\ pc' = "acquire"
            /\ conv' = DocmConverter_init(template_path, TRUE)
    /\ UNCHANGED callvars
    /\ UNCHANGED <<entry, input, page_data, template_path, template_file,
                   tempdirs, temp_file, usable, stdout, exit_code, stages,
                   releases, render_calls, output_file, result>>

\* a caller of the package constructs a DocmConverter
ApiConstruct ==
    /\ pc = "construct"
    /\ \E convert_placeholders \in BOOLEAN :
           conv' = DocmConverter_init(template_path, convert_placeholders)
    /\ pc' = "acquire"
    /\ UNCHANGED callvars
    /\ UNCHANGED <<entry, input, page_data, template_path, template_file,
                   tempdirs, temp_file, usable, exc, stdout, exit_code, stages,
                   releases, render_calls, output_file, result>>

\* the with statement calls __enter__; when it raises the body and __exit__
\* are skipped
Acquire ==
    /\ pc = "acquire"
    /\ LET o == DocmConverter_enter(conv, template_file)
       IN /\ tempdirs' = IF o.mkdtemp THEN tempdirs \cup {TEMP_DIR} ELSE tempdirs
          /\ temp_file' = o.written
          \* save(temp_docx) writes at the path it is given
          /\ template_file' = IF o.written # NoFile
                                  /\ o.converted_path.dir = template_path.dir
                               THEN o.written ELSE template_file
          /\ conv' = [conv EXCEPT !.converted_path = o.converted_path,
                                  !.temp_dir = o.temp_dir]
          /\ usable' = o.returns
          /\ exc' = o.raised
          /\ pc' = IF o.raised # "None" THEN "left" ELSE "body"
          /\ stages' = IF o.raised # "None" THEN stages ELSE stages \o <<"acquire">>
    /\ UNCHANGED callvars
    /\ UNCHANGED <<entry, input, page_data, template_path,
                   stdout, exit_code, releases, render_calls, output_file,
                   result>>

\* the body of the with statement in render_template
RenderBody ==
    /\ pc = "body"
    /\ entry = "cli"
    /\ LET b == render_body(FileAt(usable))
       IN /\ exc' = b.exc
          /\ stages' = stages \o b.stages
          /\ IF b.exc = "None"
             THEN \E d \in FinalDocs : output_file' = [exists |-> TRUE, sdts |-> d]
             ELSE output_file' = output_file
    /\ pc' = "release"
    /\ UNCHANGED callvars
    /\ UNCHANGED <<entry, input, page_data, template_path, template_file, conv,
                   tempdirs, temp_file, usable, stdout, exit_code, releases,
                   render_calls, result>>

\* the body of a caller's with statement: it finishes or raises
ApiBody ==
    /\ pc = "body"
    /\ entry = "api"
    /\ exc' \in {"None", "ConsumerError"}
    /\ pc' = "release"
    /\ UNCHANGED callvars
    /\ UNCHANGED <<entry, input, page_data, template_path, template_file, conv,
                   tempdirs, temp_file, usable, stdout, exit_code, stages,
                   releases, render_calls, output_file, result>>

\* the with statement calls __exit__ as the body is left; the exception
\* stays in flight unless __exit__ returns true
Release ==
    /\ pc = "release"
    /\ LET x == DocmConverter_exit(conv, tempdirs)
       IN /\ tempdirs' = x.dirs
          /\ temp_file' = IF TEMP_DIR \in x.dirs THEN temp_file ELSE NoFile
          \* rmtree removes every file of the directory it is given
          /\ template_file' = IF template_path.dir \in tempdirs \ x.dirs
                               THEN NoFile ELSE template_file
          /\ exc' = IF x.suppress THEN "None" ELSE exc
    /\ releases' = releases + 1
    /\ stages' = stages \o <<"release">>
    /\ pc' = "left"
    /\ UNCHANGED callvars
    /\ UNCHANGED <<entry, input, page_data, template_path, conv,
                   usable, stdout, exit_code, render_calls, output_file, result>>

\* render_template behind the with statement: an exception propagates to
\* main; otherwise the post-processing runs and the tuple is returned
RenderTail ==
    /\ pc = "left"
    /\ entry = "cli"
    /\ IF exc # "None"
       THEN /\ pc' = "main_except"
            /\ UNCHANGED <<output_file, result, stages>>
       ELSE LET r == post_process(output_file.sdts, page_data.noTocPrompt)
            IN /\ output_file' = [exists |-> TRUE, sdts |-> r.doc]
               /\ result' = PyTuple(OUTPUT_PATH, r.has_toc)
               /\ stages' = stages \o <<"toc">>
               /\ pc' = "main_returned"
    /\ UNCHANGED callvars
    /\ UNCHANGED <<entry, input, page_data, template_path, template_file, conv,
                   tempdirs, temp_file, usable, exc, stdout, exit_code,
                   releases, render_calls>>

\* main behind the call of render_template
CliReport ==
    /\ pc \in {"main_except", "main_returned"}
    /\ LET r == main_after_render(exc, result)
       IN /\ stdout' = stdout \o r.print
          /\ exit_code' = r.ret
    /\ exc' = "None"
    /\ pc' = "exited"
    /\ UNCHANGED callvars
    /\ UNCHANGED <<entry, input, page_data, template_path, template_file, conv,
                   tempdirs, temp_file, usable, stages, releases, render_calls,
                   output_file, result>>

\* the caller's with statement is left; an exception in flight reaches the
\* caller
ApiLeave ==
    /\ pc = "left"
    /\ entry = "api"
    /\ pc' = "exited"
    /\ UNCHANGED callvars
    /\ UNCHANGED <<entry, input, page_data, template_path, template_file, conv,
                   tempdirs, temp_file, usable, exc, stdout, exit_code, stages,
                   releases, render_calls, output_file, result>>

Next ==
    \/ CliMain
    \/ RenderStart
    \/ ApiConstruct
    \/ Acquire
    \/ RenderBody
    \/ ApiBody
    \/ Release
    \/ RenderTail
    \/ CliReport
    \/ ApiLeave

Spec == Init /\ [][Next]_vars

(***************************************************************************)
(* The post-processing of render_template, from every state in which the   *)
(* with statement has been left without an exception and the native        *)
(* template rendering has saved a document.                                *)
(***************************************************************************)
PlainTemplate ==
    Package([n \in PartNames |->
                IF n = CONTENT_TYPES THEN encode(ContentTypesDocx)
                ELSE IF n = "word/document.xml" THEN encode(T_native)
                ELSE Absent])

InitToc ==
    /\ entry = "cli"
    /\ pc = "left"
    /\ input = "valid"
    /\ page_data \in [noTocPrompt : BOOLEAN]
    /\ template_path = [dir |-> "templates", stem |-> "basic-template", suffix |-> ".docx"]
    /\ template_file = PlainTemplate
    /\ conv = DocmConverter_init(template_path, TRUE)
    /\ tempdirs = {}
    /\ temp_file = NoFile
    /\ usable = template_path
    /\ exc = "None"
    /\ stdout = << >>
    /\ exit_code = -1
    /\ stages = <<"acquire", "load", "context", "render", "save", "release">>
    /\ releases = 1
    /\ render_calls = 1
    /\ output_file \in {[exists |-> TRUE, sdts |-> d] : d \in FinalDocs}
    /\ result = NoResult
    /\ NoCall

NextToc ==
    \/ RenderTail
    \/ CliReport

SpecToc == InitToc /\ [][NextToc]_vars

(***************************************************************************)
(* Properties                                                              *)
(***************************************************************************)

\* acquisition has returned: the with statement is in its body or behind it
Acquired == usable # NonePath

\* the scoped use of the converter has ended
ScopeLeft == pc \in {"left", "main_except", "main_returned", "exited"}

\* the temporary copy is a standard-format copy of the template: the same
\* part names, and no macro-enabled type declared
StandardCopy ==
    /\ temp_file.kind = "zip"
    /\ DOMAIN temp_file.parts = DOMAIN template_file.parts
    /\ \A i \in 1..Len(decode(temp_file.parts[CONTENT_TYPES])) :
           decode(temp_file.parts[CONTENT_TYPES])[i] # DOCM_CONTENT_TYPE

\* the temporary copy is a translated copy of the template: the same part
\* names, and contents that differ
TranslatedCopy ==
    /\ temp_file.kind = "zip"
    /\ DOMAIN temp_file.parts = DOMAIN template_file.parts
    /\ temp_file.parts # template_file.parts

TempRecorded ==
    /\ usable.dir = TEMP_DIR
    /\ conv.converted_path = usable
    /\ conv.temp_dir = TEMP_DIR
    /\ TEMP_DIR \in tempdirs

PassedThrough ==
    /\ usable = conv.original_path
    /\ conv.temp_dir = "None"
    /\ tempdirs = {}
    /\ temp_file = NoFile

\* C1 as stated: once acquisition has returned, a .docm input has a temporary
\* standard-format copy and its directory recorded; otherwise an input that
\* has legacy placeholders has a temporary translated copy and its directory
\* recorded; otherwise the original path is returned and no temporary
\* directory is created or recorded.
C1_AcquireBranchesAsStated ==
    (pc = "body") =>
        IF is_docm_file(template_path)
        THEN TempRecorded /\ usable.suffix = ".docx" /\ StandardCopy
        ELSE IF has_scroll_placeholders(template_file)
        THEN TempRecorded /\ TranslatedCopy
        ELSE PassedThrough

\* C1 amended: the second branch is taken only when placeholder conversion
\* is requested (convert_placeholders, the default); a .docx input with
\* legacy placeholders and convert_placeholders false is passed through.
C1_AcquireBranches ==
    (pc = "body") =>
        IF is_docm_file(template_path)
        THEN TempRecorded /\ usable.suffix = ".docx" /\ StandardCopy
        ELSE IF conv.convert_placeholders /\ has_scroll_placeholders(template_file)
        THEN TempRecorded /\ TranslatedCopy
        ELSE PassedThrough

C1_Witness ==
    /\ pc = "body"
    /\ ~is_docm_file(template_path)
    /\ has_scroll_placeholders(template_file)
    /\ conv.convert_placeholders
    /\ TempRecorded
    /\ TranslatedCopy

\* C2: once acquisition has returned, leaving the scope runs release exactly
\* once, whether the body finished or raised; the step of release removes
\* the recorded temporary directory and leaves the exception of the body in
\* flight.
C2_ReleaseOnce ==
    /\ [](releases <= 1)
    /\ []((Acquired /\ ScopeLeft) =>
            (releases = 1 /\ (conv.temp_dir # "None" => conv.temp_dir \notin tempdirs)))
    /\ []((Acquired /\ ~ScopeLeft) => releases = 0)
    /\ [][(pc = "release") =>
            (/\ releases' = releases + 1
             /\ exc' = exc
             /\ (conv.temp_dir # "None" => conv.temp_dir \notin tempdirs'))]_vars

C2_Witness ==
    /\ pc = "exited"
    /\ entry = "api"
    /\ releases = 1
    /\ exc = "ConsumerError"
    /\ conv.temp_dir = TEMP_DIR
    /\ tempdirs = {}

\* C3: every temporary directory created during a conversion is deleted by
\* the time the scoped use of DocmConverter ends, on every path.
C3_TempDirsDeleted ==
    (ScopeLeft /\ template_file.kind # "missing") => tempdirs = {}

\* a template that exists and is a well-formed package of the kind its name
\* says
WellFormedTemplate ==
    /\ template_file.kind = "zip"
    /\ CONTENT_TYPES \in DOMAIN template_file.parts
    /\ template_file.parts[CONTENT_TYPES] =
           IF is_docm_file(template_path)
           THEN encode(ContentTypesDocm) ELSE encode(ContentTypesDocx)
    /\ "word/document.xml" \in DOMAIN template_file.parts
    /\ \A n \in DOMAIN template_file.parts \cap xml_files :
           Decodes(template_file.parts[n])

\* C4: a CLI run on valid page data and an existing well-formed template
\* (rendering succeeds) prints {"success": true, "output": <the output path>}
\* and returns 0, and the output file exists.
C4_CliSuccess ==
    (pc = "exited" /\ entry = "cli" /\ input = "valid" /\ WellFormedTemplate) =>
        /\ stdout = <<Success(PyStr(PyPath(OUTPUT_PATH)))>>
        /\ exit_code = 0
        /\ output_file.exists

\* C5: every failure of a CLI run ends with exactly one failure object
\* printed and exit code 1; no run prints two objects; a missing template is
\* reported without a call of render_template.
C5_CliFailure ==
    /\ Len(stdout) <= 1
    /\ (entry = "cli" /\ template_file.kind = "missing") => render_calls = 0
    /\ (pc = "exited" /\ entry = "cli" /\ result = NoResult) =>
           /\ Len(stdout) = 1
           /\ DOMAIN stdout[1] = {"success", "error"}
           /\ stdout[1].success = FALSE
           /\ exit_code = 1

C5_Witness ==
    /\ pc = "exited"
    /\ entry = "cli"
    /\ render_calls = 1
    /\ stdout = <<Failure("BadZipFile")>>
    /\ exit_code = 1

\* C6: for valid page data and an existing well-formed template,
\* render_template completes its stages in order and returns the tuple
\* (output path, has_toc) with the output file written.
C6_RenderCompletes ==
    (/\ pc \in {"main_except", "main_returned"}
     /\ input = "valid"
     /\ WellFormedTemplate) =>
        /\ pc = "main_returned"
        /\ stages = <<"acquire", "load", "context", "render", "save", "release", "toc">>
        /\ result.type = "tuple"
        /\ result.items[1] = OUTPUT_PATH
        /\ output_file.exists

\* the first field character of a tag with fldCharType="begin", or 0
FirstBegin(sdt) == FirstIdx({k \in 1..Len(sdt.flds) : sdt.flds[k].type = "begin"})

DocmConverted == pc = "body" /\ is_docm_file(template_path)

\* the temporary copy was written by convert_docx_placeholders
DocxConverted == pc = "body" /\ ~is_docm_file(template_path) /\ usable.dir = TEMP_DIR

\* C8: convert_docm_to_docx writes a package with the part names of the
\* input; its content-types part is that of the input with the macro-enabled
\* type replaced by the standard type; every part that is neither the
\* content-types part nor, with placeholder conversion requested, a
\* document/header/footer part has the bytes of the input.
C8_DocmFrame ==
    DocmConverted =>
        /\ DOMAIN temp_file.parts = DOMAIN template_file.parts
        /\ LET old == decode(template_file.parts[CONTENT_TYPES])
               new == decode(temp_file.parts[CONTENT_TYPES])
           IN /\ Decodes(temp_file.parts[CONTENT_TYPES])
              /\ Len(new) = Len(old)
              /\ \A i \in 1..Len(old) :
                     new[i] = IF old[i] = DOCM_CONTENT_TYPE
                              THEN DOCX_CONTENT_TYPE ELSE old[i]
        /\ \A n \in DOMAIN template_file.parts :
               (n # CONTENT_TYPES /\ ~(conv.convert_placeholders /\ n \in xml_files)) =>
                   temp_file.parts[n] = template_file.parts[n]

C8_Witness ==
    /\ DocmConverted
    /\ conv.convert_placeholders
    /\ "word/vbaProject.bin" \in DOMAIN temp_file.parts
    /\ "customXml/item1.xml" \in DOMAIN temp_file.parts
    /\ temp_file.parts["word/document.xml"] # template_file.parts["word/document.xml"]
    /\ temp_file.parts[CONTENT_TYPES] # template_file.parts[CONTENT_TYPES]

\* the translator pipeline in the order of the specification
SpecPipeline(text) ==
    fix_content_placeholder_level(
        convert_scroll_placeholders(normalize_split_placeholders(text)))

\* C9: with placeholder conversion requested, each document/header/footer
\* part that decodes is written as promotion(translation(split-repair(text)))
\* by both conversions.
C9_PipelineOrder ==
    ((DocmConverted /\ conv.convert_placeholders) \/ DocxConverted) =>
        \A n \in DOMAIN template_file.parts \cap xml_files :
            Decodes(template_file.parts[n]) =>
                /\ Decodes(temp_file.parts[n])
                /\ decode(temp_file.parts[n]) =
                       SpecPipeline(decode(template_file.parts[n]))

C9_Witness ==
    /\ DocxConverted
    /\ template_file.parts["word/document.xml"] = encode(T_split_content)
    /\ temp_file.parts["word/document.xml"] =
           encode(<<"{{p content }}", "<w:p>", "<w:pPr>", "<w:sectPr/>",
                    "</w:pPr>", "</w:p>">>)

\* C10: a document/header/footer part that does not decode is written as it
\* is, the conversion does not fail because of it, and the parts that decode
\* are still converted.
C10_UndecodablePart ==
    /\ ((DocmConverted /\ conv.convert_placeholders) \/ DocxConverted) =>
           \A n \in DOMAIN template_file.parts \cap xml_files :
               IF Decodes(template_file.parts[n])
               THEN temp_file.parts[n] =
                        encode(SpecPipeline(decode(template_file.parts[n])))
               ELSE temp_file.parts[n] = template_file.parts[n]
    /\ (pc = "left" /\ ~Acquired) =>
           \/ template_file.kind # "zip"
           \/ CONTENT_TYPES \notin DOMAIN template_file.parts
           \/ ~Decodes(template_file.parts[CONTENT_TYPES])

C10_Witness ==
    /\ DocmConverted
    /\ conv.convert_placeholders
    /\ template_file.parts["word/document.xml"] = Undecodable
    /\ temp_file.parts["word/document.xml"] = Undecodable
    /\ "word/header1.xml" \in DOMAIN template_file.parts
    /\ ContainsScroll(decode(template_file.parts["word/header1.xml"]))
    /\ ~ContainsScroll(decode(temp_file.parts["word/header1.xml"]))

(***************************************************************************)
(* The text functions of docm_support.py called on their own.  The         *)
(* argument is the text of a part: a text around one legacy token, a text  *)
(* around one paragraph that holds the content placeholder, or any short   *)
(* text over RawAlphabet.                                                  *)
(***************************************************************************)

\* the variables of a run of main or of a with statement
sysvars ==
    <<pc, entry, input, page_data, template_path, template_file, conv,
      tempdirs, temp_file, usable, exc, stdout, exit_code, stages, releases,
      render_calls, output_file, result>>

\* the package is imported as a library: no run of main, no converter
Library ==
    /\ entry = "api"
    /\ pc = "library"
    /\ input = "valid"
    /\ page_data = [noTocPrompt |-> FALSE]
    /\ template_path = NonePath
    /\ template_file = NoFile
    /\ conv = Unconstructed
    /\ tempdirs = {}
    /\ temp_file = NoFile
    /\ usable = NonePath
    /\ exc = "None"
    /\ stdout = << >>
    /\ exit_code = -1
    /\ stages = << >>
    /\ releases = 0
    /\ render_calls = 0
    /\ output_file = NoDoc
    /\ result = NoResult

\* the keys of SCROLL_MAPPINGS
MappedNames ==
    {<<"title">>, <<"content">>, <<"creator", ".", "fullName">>,
     <<"creator", ".", "email">>, <<"modifier", ".", "fullName">>,
     <<"modifier", ".", "email">>, <<"creationdate">>, <<"modificationdate">>,
     <<"pageid">>, <<"pageurl">>, <<"tinyurl">>, <<"pagelabels">>,
     <<"space", ".", "key">>, <<"space", ".", "name">>, <<"space", ".", "url">>,
     <<"exporter", ".", "fullName">>, <<"exportdate">>,
     <<"template", ".", "name">>}

\* dotted names that are no key of SCROLL_MAPPINGS
UnmappedNames == {<<"foo">>, <<"creator", ".", "name">>}

NoFmt == [clause |-> "none", pattern |-> << >>]

\* no clause, .("pattern") or ("pattern"), for three patterns
Fmts ==
    {NoFmt} \cup
        [clause : {"dot", "nodot"},
         pattern : {<<"yyyy">>, <<"yyyy", "-", "MM">>,
                    <<"$", "scroll", ".", "title">>}]

\* $scroll.<name>, $!scroll.<name>, with the date-format clause
LegacyToken(ns, name, fmt) ==
    <<"$">> \o (IF ns THEN <<"!">> ELSE << >>) \o <<"scroll", ".">> \o name
        \o (IF fmt.clause = "none" THEN << >>
            ELSE (IF fmt.clause = "dot" THEN <<".">> ELSE << >>)
                     \o <<"(", QUOTE>> \o fmt.pattern \o <<QUOTE, ")">>)

PlainParagraph == <<"<w:p>", "<w:r>", "<w:t>", "Hello", "</w:t>", "</w:r>", "</w:p>">>

\* a token followed by nothing, by a blank and a word, by a comma or by a
\* period; on its own, in a run, or with its $ in a run of its own
TokenArgs ==
    [kind : {"token"}, ns : BOOLEAN, name : MappedNames \cup UnmappedNames,
     fmt : Fmts, follow : {<< >>, <<" ", "Hello">>, <<",">>, <<".">>},
     ctx : {"bare", "run", "split"},
     before : {<< >>}, ppr : {<< >>}, after : {<< >>}, raw : {<< >>}]

\* a paragraph that holds the content placeholder ({{ content }},
\* $scroll.content or $!scroll.content), with or without paragraph
\* properties and a section break in them; before it nothing, a paragraph or
\* an empty paragraph, after it nothing or a paragraph
ParagraphArgs ==
    {a \in [kind : {"paragraph"}, ns : BOOLEAN, name : {<<"content">>},
            fmt : {NoFmt}, follow : {<< >>}, ctx : {"native", "legacy"},
            before : {<< >>, PlainParagraph, <<"<w:p/>">>,
                      <<"<w:p w:rsidR=\"1\"/>">>},
            ppr : {<< >>, <<"<w:pPr>", "<w:rPr/>", "</w:pPr>">>,
                   <<"<w:pPr>", "<w:sectPr/>", "</w:pPr>">>},
            after : {<< >>, PlainParagraph},
            raw : {<< >>}] :
        a.ctx = "native" => ~a.ns}

\* any text of up to MaxRawLen lexemes, no two words side by side (they
\* would be one lexeme)
MaxRawLen == 4

RawArgs ==
    [kind : {"raw"}, ns : {FALSE}, name : {<<"title">>}, fmt : {NoFmt},
     follow : {<< >>}, ctx : {"bare"}, before : {<< >>}, ppr : {<< >>},
     after : {<< >>},
     raw : {xs \in SeqsUpTo({"$", "!", "scroll", ".", "title", "{{", "}}", " "},
                            MaxRawLen) :
               \A i \in 1..(Len(xs) - 1) : ~(IsWord(xs[i]) /\ IsWord(xs[i + 1]))}]

\* two text runs: the text of the first (before), the markup or the run
\* between them (ppr), the text of the second (follow), and a run behind
\* them (after)
RunArgs ==
    [kind : {"runs"}, ns : {FALSE}, name : {<<"title">>}, fmt : {NoFmt},
     follow : {<<"scroll", ".", "title">>, <<"!", "scroll", ".", "title">>,
               <<"title">>, <<" ", "scroll", ".", "title">>},
     ctx : {"bare"},
     before : {<<"$">>, <<"Hello", "$">>, <<"$", "$">>, <<"$", " ">>,
               <<"Hello">>},
     ppr : {<<"</w:r>", "<w:r>">>, <<"</w:r>", "<w:r>", "<w:rPr/>">>,
            <<"</w:r>", "<w:r>", "<w:t>", "</w:t>", "</w:r>", "<w:r>">>,
            <<"</w:r>", "<w:r>", "<w:t>", "Hello", "</w:t>", "</w:r>",
              "<w:r>">>},
     after : {<< >>, <<"<w:r>", "<w:t>", "$", "</w:t>", "</w:r>">>},
     raw : {<< >>}]

\* the text an argument stands for
TextOf(a) ==
    LET token == LegacyToken(a.ns, a.name, a.fmt)
    IN CASE a.kind = "raw" -> a.raw
         [] a.kind = "runs" ->
                <<"<w:r>", "<w:t>">> \o a.before \o <<"</w:t>">> \o a.ppr
                    \o <<"<w:t>">> \o a.follow \o <<"</w:t>", "</w:r>">>
                    \o a.after
         [] a.kind = "paragraph" ->
                a.before \o <<"<w:p>">> \o a.ppr \o <<"<w:r>", "<w:t>">>
                    \o (IF a.ctx = "native"
                        THEN <<"{{", " ", "content", " ", "}}">> ELSE token)
                    \o <<"</w:t>", "</w:r>", "</w:p>">> \o a.after
         [] a.kind = "token" /\ a.ctx = "bare" -> token \o a.follow
         [] a.kind = "token" /\ a.ctx = "run" ->
                <<"<w:r>", "<w:t>">> \o token \o a.follow \o <<"</w:t>", "</w:r>">>
         [] a.kind = "token" /\ a.ctx = "split" ->
                <<"<w:r>", "<w:t>", "$", "</w:t>", "</w:r>", "<w:r>", "<w:rPr/>",
                  "<w:t>">>
                    \o Tail(token) \o a.follow \o <<"</w:t>", "</w:r>">>

\* the sequences of calls made: the pipeline of the conversions, the
\* translation twice, the promotion alone
CallPlans ==
    {<<"normalize_split_placeholders", "convert_scroll_placeholders",
       "fix_content_placeholder_level">>,
     <<"convert_scroll_placeholders", "convert_scroll_placeholders">>,
     <<"fix_content_placeholder_level">>}

Planned(f) ==
    \E plan \in CallPlans :
        /\ Len(calls) < Len(plan)
        /\ SubSeq(plan, 1, Len(calls) + 1) = Append(calls, f)

InitText ==
    /\ Library
    /\ arg \in TokenArgs \cup ParagraphArgs \cup RawArgs \cup RunArgs
    /\ ret = <<TextOf(arg)>>
    /\ calls = << >>

CallNormalize ==
    /\ pc = "library"
    /\ Planned("normalize_split_placeholders")
    /\ ret' = Append(ret, normalize_split_placeholders(ret[Len(ret)]))
    /\ calls' = Append(calls, "normalize_split_placeholders")
    /\ UNCHANGED arg
    /\ UNCHANGED sysvars

CallConvert ==
    /\ pc = "library"
    /\ Planned("convert_scroll_placeholders")
    /\ ret' = Append(ret, convert_scroll_placeholders(ret[Len(ret)]))
    /\ calls' = Append(calls, "convert_scroll_placeholders")
    /\ UNCHANGED arg
    /\ UNCHANGED sysvars

CallFix ==
    /\ pc = "library"
    /\ Planned("fix_content_placeholder_level")
    /\ ret' = Append(ret, fix_content_placeholder_level(ret[Len(ret)]))
    /\ calls' = Append(calls, "fix_content_placeholder_level")
    /\ UNCHANGED arg
    /\ UNCHANGED sysvars

NextText ==
    \/ CallNormalize
    \/ CallConvert
    \/ CallFix

SpecText == InitText /\ [][NextText]_vars

(***************************************************************************)
(* Properties of the text functions                                        *)
(***************************************************************************)

\* the literal $scroll. or $!scroll. stands at index i of text
LegacyLiteralAt(text, i) ==
    \/ /\ i + 2 <= Len(text)
       /\ SubSeq(text, i, i + 2) = <<"$", "scroll", ".">>
    \/ /\ i + 3 <= Len(text)
       /\ SubSeq(text, i, i + 3) = <<"$", "!", "scroll", ".">>

HoldsLegacyLiteral(text) == \E i \in 1..Len(text) : LegacyLiteralAt(text, i)

\* C11: has_scroll_placeholders is true exactly when some
\* document/header/footer part of the package decodes to a text that holds
\* $scroll. or $!scroll. (seen at acquisition of a standard-format template
\* with conversion requested: the translated copy is made exactly then); a
\* file that is no readable package, or a part that does not decode, makes
\* it false and raises nothing.
C11_LegacyDetection ==
    (/\ ~is_docm_file(template_path)
     /\ conv.convert_placeholders
     /\ template_file.kind # "missing") =>
        /\ ~(pc = "left" /\ ~Acquired)
        /\ pc = "body" =>
               (TempRecorded <=>
                    /\ template_file.kind = "zip"
                    /\ \E n \in DOMAIN template_file.parts \cap xml_files :
                           /\ Decodes(template_file.parts[n])
                           /\ HoldsLegacyLiteral(decode(template_file.parts[n])))

C11_Witness ==
    /\ pc = "body"
    /\ ~is_docm_file(template_path)
    /\ conv.convert_placeholders
    /\ template_file.kind = "zip"
    /\ template_file.parts["word/document.xml"] = Undecodable
    /\ "word/header1.xml" \in DOMAIN template_file.parts
    /\ template_file.parts["word/header1.xml"] = encode(T_header)
    /\ TempRecorded

CONVERT == "convert_scroll_placeholders"
NORMALIZE == "normalize_split_placeholders"
FIX == "fix_content_placeholder_level"

\* middle, with what follows the token, on its own or in the run
InContext(a, middle) ==
    IF a.ctx = "bare" THEN middle \o a.follow
    ELSE <<"<w:r>", "<w:t>">> \o middle \o a.follow \o <<"</w:t>", "</w:r>">>

\* C12: translating $scroll.<name> gives {{ <mapped> }} for every name of
\* the mapping table and {{ <name> }} for every other dotted name, and the
\* markup and prose around the token stay as they were.
C12_MappingAndFallback ==
    (/\ calls = <<CONVERT>>
     /\ arg.kind = "token" /\ arg.ctx # "split"
     /\ ~arg.ns /\ arg.fmt = NoFmt) =>
        ret[2] = InContext(arg, <<"{{", " ">>
                                    \o (IF arg.name \in MappedNames
                                        THEN SCROLL_MAPPINGS(arg.name)
                                        ELSE arg.name)
                                    \o <<" ", "}}">>)

\* C13: in every translated placeholder the date filter is there exactly
\* when a date-format clause was given, the default('') filter exactly when
\* the token was null-safe, and the date filter comes first.
C13_FilterChain ==
    (calls = <<CONVERT>> /\ arg.kind = "token" /\ arg.ctx # "split") =>
        LET out == ret[2]
            dates == {i \in 1..Len(out) : out[i] = "date('"}
            defaults == {i \in 1..Len(out) : out[i] = "default('')"}
        IN /\ dates # {} <=> arg.fmt.clause # "none"
           /\ defaults # {} <=> arg.ns
           /\ \A i \in dates : \A j \in defaults : i < j

\* C14 as stated: a text of native tokens and prose is returned unchanged,
\* and for any input a second translation changes nothing.
C14_IdempotentAsStated ==
    /\ (calls = <<CONVERT>> /\ \A i \in 1..Len(ret[1]) : ret[1][i] # "$") =>
           ret[2] = ret[1]
    /\ calls = <<CONVERT, CONVERT>> => ret[3] = ret[2]

\* C14 amended: a text of native tokens and prose is returned unchanged, and
\* a second translation changes nothing unless a date-format clause of the
\* input itself holds a legacy token between its quotes.
C14_Idempotent ==
    /\ (calls = <<CONVERT>> /\ \A i \in 1..Len(ret[1]) : ret[1][i] # "$") =>
           ret[2] = ret[1]
    /\ (calls = <<CONVERT, CONVERT>> /\ ~HoldsLegacyLiteral(arg.fmt.pattern)) =>
           ret[3] = ret[2]

C14_Witness ==
    /\ calls = <<CONVERT, CONVERT>>
    /\ arg.kind = "token" /\ arg.ctx = "run" /\ arg.ns
    /\ arg.fmt = [clause |-> "dot", pattern |-> <<"yyyy", "-", "MM">>]
    /\ ret[2] # ret[1]
    /\ ret[3] = ret[2]

C16_ContentPromotion ==
    (/\ arg.kind = "paragraph"
     /\ \/ calls = <<FIX>> /\ arg.ctx = "native"
        \/ calls = <<NORMALIZE, CONVERT, FIX>> /\ arg.ctx = "legacy" /\ ~arg.ns) =>
        ret[Len(ret)] =
            arg.before \o <<"{{p content }}">>
                \o (IF \E i \in 1..Len(arg.ppr) : arg.ppr[i] = "<w:sectPr/>"
                    THEN <<"<w:p>">> \o arg.ppr \o <<"</w:p>">> ELSE << >>)
                \o arg.after

\* ------------------------------------------------------------------------
\* filters.py: Java-style date patterns.  A pattern is a sequence of
\* one-character strings; a datetime is a record of its fields.
\* ------------------------------------------------------------------------

\* strftime("%B"), strftime("%b")
MonthNames ==
    [B |-> <<"January", "February", "March", "April", "May", "June", "July",
             "August", "September", "October", "November", "December">>,
     b |-> <<"Jan", "Feb", "Mar", "Apr", "May", "Jun", "Jul", "Aug", "Sep",
             "Oct", "Nov", "Dec">>]

\* "".join(chars)
RECURSIVE Join(_)
Join(chars) ==
    IF chars = << >> THEN "" ELSE chars[1] \o Join(Tail(chars))

\* f"{n:0{width}d}"
RECURSIVE ZeroPad(_, _)
ZeroPad(n, width) ==
    LET digits == ToString(n) IN
    IF Len(digits) >= width THEN digits
    ELSE "0" \o ZeroPad(n, width - 1)

\* str.isalpha() on the characters patterns are built from
IsAlpha(ch) ==
    ch \in {"y", "Y", "M", "d", "D", "H", "h", "m", "s", "a", "E", "t"}

\* mutant: the 12-hour token shows the 24-hour value
FormatTokenHour24(dt, token) ==
    LET ch == token[1]
        length == Len(token)
    IN  IF ch \in {"y", "Y"}
        THEN IF length = 2 THEN ZeroPad(dt.year % 100, 2)
             ELSE ZeroPad(dt.year, 4)
        ELSE IF ch = "M"
        THEN IF length >= 4 THEN MonthNames.B[dt.month]
             ELSE IF length = 3 THEN MonthNames.b[dt.month]
             ELSE IF length = 2 THEN ZeroPad(dt.month, 2)
             ELSE ToString(dt.month)
        ELSE IF ch \in {"d", "D"}
        THEN IF length = 2 THEN ZeroPad(dt.day, 2) ELSE ToString(dt.day)
        ELSE IF ch \in {"H", "h"}
        THEN IF length = 2 THEN ZeroPad(dt.hour, 2) ELSE ToString(dt.hour)
        ELSE IF ch = "m"
        THEN IF length = 2 THEN ZeroPad(dt.minute, 2)
             ELSE ToString(dt.minute)
        ELSE IF ch = "s"
        THEN IF length = 2 THEN ZeroPad(dt.second, 2)
             ELSE ToString(dt.second)
        ELSE IF ch = "a"
        THEN IF dt.hour < 12 THEN "AM" ELSE "PM"
        ELSE Join(token)

_format_java_token(dt, token) ==
    LET ch == token[1]
        length == Len(token)
        hour12 == IF dt.hour % 12 = 0 THEN 12 ELSE dt.hour % 12
    IN  IF ch \in {"y", "Y"}
        THEN IF length = 2 THEN ZeroPad(dt.year % 100, 2)
             ELSE ZeroPad(dt.year, 4)
        ELSE IF ch = "M"
        THEN IF length >= 4 THEN MonthNames.B[dt.month]
             ELSE IF length = 3 THEN MonthNames.b[dt.month]
             ELSE IF length = 2 THEN ZeroPad(dt.month, 2)
             ELSE ToString(dt.month)
        ELSE IF ch \in {"d", "D"}
        THEN IF length = 2 THEN ZeroPad(dt.day, 2) ELSE ToString(dt.day)
        ELSE IF ch = "H"
        THEN IF length = 2 THEN ZeroPad(dt.hour, 2) ELSE ToString(dt.hour)
        ELSE IF ch = "h"
        THEN IF length = 2 THEN ZeroPad(hour12, 2) ELSE ToString(hour12)
        ELSE IF ch = "m"
        THEN IF length = 2 THEN ZeroPad(dt.minute, 2)
             ELSE ToString(dt.minute)
        ELSE IF ch = "s"
        THEN IF length = 2 THEN ZeroPad(dt.second, 2)
             ELSE ToString(dt.second)
        ELSE IF ch = "a"
        THEN IF dt.hour < 12 THEN "AM" ELSE "PM"
        ELSE Join(token)

\* the inner while loop: first index after the run of pattern[i]
RECURSIVE RunEnd(_, _, _)
RunEnd(pattern, i, j) ==
    IF j <= Len(pattern) /\ pattern[j] = pattern[i]
    THEN RunEnd(pattern, i, j + 1) ELSE j

\* the outer while loop of _format_java_date from index i on
RECURSIVE FormatFrom(_, _, _, _)
FormatFrom(dt, pattern, i, in_literal) ==
    IF i > Len(pattern) THEN ""
    ELSE LET ch == pattern[i] IN
         IF ch = "'"
         THEN IF i + 1 <= Len(pattern) /\ pattern[i + 1] = "'"
              THEN "'" \o FormatFrom(dt, pattern, i + 2, in_literal)
              ELSE FormatFrom(dt, pattern, i + 1, ~in_literal)
         ELSE IF in_literal
         THEN ch \o FormatFrom(dt, pattern, i + 1, in_literal)
         ELSE IF IsAlpha(ch)
         THEN LET j == RunEnd(pattern, i, i) IN
              _format_java_token(dt, SubSeq(pattern, i, j - 1))
                  \o FormatFrom(dt, pattern, j, in_literal)
         ELSE ch \o FormatFrom(dt, pattern, i + 1, in_literal)

_format_java_date(dt, pattern) == FormatFrom(dt, pattern, 1, FALSE)

\* datetime.fromisoformat on the values of the date specification (a "Z"
\* suffix replaced by "+00:00" first): the exception it raises, and the
\* datetime it returns.
fromisoformat(value) ==
    CASE value = "2025-01-05T04:30:00Z" ->
            [raises |-> "None",
             dt |-> [year |-> 2025, month |-> 1, day |-> 5, hour |-> 4,
                     minute |-> 30, second |-> 0]]
      [] value = "2025-01-15T14:30:00Z" ->
            [raises |-> "None",
             dt |-> [year |-> 2025, month |-> 1, day |-> 15, hour |-> 14,
                     minute |-> 30, second |-> 0]]
      [] value = "2025-12-15T00:05:09Z" ->
            [raises |-> "None",
             dt |-> [year |-> 2025, month |-> 12, day |-> 15, hour |-> 0,
                     minute |-> 5, second |-> 9]]
      [] value = "2025-06-09T12:00:00+02:00" ->
            [raises |-> "None",
             dt |-> [year |-> 2025, month |-> 6, day |-> 9, hour |-> 12,
                     minute |-> 0, second |-> 0]]
      [] value = "2025-01-05" ->
            [raises |-> "None",
             dt |-> [year |-> 2025, month |-> 1, day |-> 5, hour |-> 0,
                     minute |-> 0, second |-> 0]]
      [] OTHER ->
            [raises |-> "ValueError",
             dt |-> [year |-> 1, month |-> 1, day |-> 1, hour |-> 0,
                     minute |-> 0, second |-> 0]]

\* mutant: the ValueError of the parse is not caught
DateFilterNoExcept(value, format) ==
    IF value = "" THEN [raised |-> "None", value |-> ""]
    ELSE LET parsed == fromisoformat(value) IN
         IF parsed.raises # "None"
         THEN [raised |-> parsed.raises, value |-> ""]
         ELSE [raised |-> "None",
               value |-> _format_java_date(parsed.dt, format)]

\* What the call does: the exception that leaves it ("None" when it
\* returns) and the string it returns.
date_filter(value, format) ==
    IF value = "" THEN [raised |-> "None", value |-> ""]
    ELSE LET parsed == fromisoformat(value) IN
         IF parsed.raises = "ValueError"
         THEN [raised |-> "None", value |-> value]
         ELSE IF parsed.raises # "None"
         THEN [raised |-> parsed.raises, value |-> ""]
         ELSE [raised |-> "None",
               value |-> _format_java_date(parsed.dt, format)]

\* ------------------------------------------------------------------------
\* The date specification: one call of the "date" filter on a value and a
\* pattern.
\* ------------------------------------------------------------------------

MaxPatternLen == 3

DateValues ==
    {"", "not-a-date", "2025-13-45", "2025-01-05T04:30:00Z",
     "2025-01-15T14:30:00Z", "2025-12-15T00:05:09Z",
     "2025-06-09T12:00:00+02:00", "2025-01-05"}

\* the patterns of the tests and of the token table, and every short
\* pattern over letters, separators and the quote
DatePatterns ==
    {<<"Y", "Y", "Y", "Y", "-", "M", "M", "-", "D", "D">>,
     <<"D", "D", "/", "M", "M", "/", "Y", "Y", "Y", "Y">>,
     <<"y", "y", "y", "y", "-", "M", "M", "-", "d", "d">>,
     <<"M", "M", "M", "M", " ", "d", ",", " ", "y", "y", "y", "y">>,
     <<"M", "M", "M", " ", "d", "d", " ", "y", "y">>,
     <<"H", "H", ":", "m", "m", ":", "s", "s">>,
     <<"H", ":", "m", ":", "s">>,
     <<"h", "h", ":", "m", " ", "a">>,
     <<"'", "a", "t", "'", " ", "h", " ", "a">>}
        \cup UNION {[1..n -> {"y", "M", "h", "a", "-", " ", "'", "E"}] :
                        n \in 0..MaxPatternLen}

InitDate ==
    /\ Library
    /\ arg \in [value : DateValues, format : DatePatterns]
    /\ ret = << >>
    /\ calls = << >>

CallDateFilter ==
    /\ calls = << >>
    /\ ret' = <<date_filter(arg.value, arg.format)>>
    /\ calls' = <<"date_filter">>
    /\ UNCHANGED arg
    /\ UNCHANGED sysvars

NextDate == CallDateFilter

SpecDate == InitDate /\ [][NextDate]_vars

\* ------------------------------------------------------------------------
\* Properties of the date filter
\* ------------------------------------------------------------------------

DATE == "date_filter"

\* The expected string of every supported token, for each reference
\* timestamp.
ReferenceTable ==
    "2025-01-05T04:30:00Z" :>
         ("yyyy" :> "2025" @@ "YYYY" :> "2025" @@ "yy" :> "25" @@
          "MMMM" :> "January" @@ "MMM" :> "Jan" @@ "MM" :> "01" @@
          "M" :> "1" @@ "dd" :> "05" @@ "DD" :> "05" @@ "d" :> "5" @@
          "HH" :> "04" @@ "H" :> "4" @@ "hh" :> "04" @@ "h" :> "4" @@
          "mm" :> "30" @@ "m" :> "30" @@ "ss" :> "00" @@ "s" :> "0" @@
          "a" :> "AM")
    @@
    "2025-01-15T14:30:00Z" :>
         ("yyyy" :> "2025" @@ "YYYY" :> "2025" @@ "yy" :> "25" @@
          "MMMM" :> "January" @@ "MMM" :> "Jan" @@ "MM" :> "01" @@
          "M" :> "1" @@ "dd" :> "15" @@ "DD" :> "15" @@ "d" :> "15" @@
          "HH" :> "14" @@ "H" :> "14" @@ "hh" :> "02" @@ "h" :> "2" @@
          "mm" :> "30" @@ "m" :> "30" @@ "ss" :> "00" @@ "s" :> "0" @@
          "a" :> "PM")
    @@
    "2025-12-15T00:05:09Z" :>
         ("yyyy" :> "2025" @@ "YYYY" :> "2025" @@ "yy" :> "25" @@
          "MMMM" :> "December" @@ "MMM" :> "Dec" @@ "MM" :> "12" @@
          "M" :> "12" @@ "dd" :> "15" @@ "DD" :> "15" @@ "d" :> "15" @@
          "HH" :> "00" @@ "H" :> "0" @@ "hh" :> "12" @@ "h" :> "12" @@
          "mm" :> "05" @@ "m" :> "5" @@ "ss" :> "09" @@ "s" :> "9" @@
          "a" :> "AM")
    @@
    "2025-06-09T12:00:00+02:00" :>
         ("yyyy" :> "2025" @@ "YYYY" :> "2025" @@ "yy" :> "25" @@
          "MMMM" :> "June" @@ "MMM" :> "Jun" @@ "MM" :> "06" @@
          "M" :> "6" @@ "dd" :> "09" @@ "DD" :> "09" @@ "d" :> "9" @@
          "HH" :> "12" @@ "H" :> "12" @@ "hh" :> "12" @@ "h" :> "12" @@
          "mm" :> "00" @@ "m" :> "0" @@ "ss" :> "00" @@ "s" :> "0" @@
          "a" :> "PM")
    @@
    "2025-01-05" :>
         ("yyyy" :> "2025" @@ "YYYY" :> "2025" @@ "yy" :> "25" @@
          "MMMM" :> "January" @@ "MMM" :> "Jan" @@ "MM" :> "01" @@
          "M" :> "1" @@ "dd" :> "05" @@ "DD" :> "05" @@ "d" :> "5" @@
          "HH" :> "00" @@ "H" :> "0" @@ "hh" :> "12" @@ "h" :> "12" @@
          "mm" :> "00" @@ "m" :> "0" @@ "ss" :> "00" @@ "s" :> "0" @@
          "a" :> "AM")

\* the maximal runs of one repeated letter all are supported tokens
SupportedPattern(table, pattern) ==
    \A i \in 1..Len(pattern) : \A j \in i..Len(pattern) :
        (/\ IsAlpha(pattern[i])
         /\ \A k \in i..j : pattern[k] = pattern[i]
         /\ i > 1 => pattern[i - 1] # pattern[i]
         /\ j < Len(pattern) => pattern[j + 1] # pattern[i]) =>
            Join(SubSeq(pattern, i, j)) \in DOMAIN table

\* each run of one repeated letter replaced by its expected string, every
\* other character copied
RECURSIVE ExpectedFrom(_, _, _)
ExpectedFrom(table, pattern, i) ==
    IF i > Len(pattern) THEN ""
    ELSE IF IsAlpha(pattern[i])
    THEN LET j == CHOOSE e \in i..Len(pattern) :
                      /\ \A k \in i..e : pattern[k] = pattern[i]
                      /\ e < Len(pattern) => pattern[e + 1] # pattern[i]
         IN  table[Join(SubSeq(pattern, i, j))]
                 \o ExpectedFrom(table, pattern, j + 1)
    ELSE pattern[i] \o ExpectedFrom(table, pattern, i + 1)

\* C17 as stated: every run of one repeated letter that is a supported
\* token is formatted from the timestamp, and every non-letter character,
\* the single quote included, is copied through literally.
C17_DateFormatAsStated ==
    (/\ calls = <<DATE>>
     /\ arg.value \in DOMAIN ReferenceTable
     /\ SupportedPattern(ReferenceTable[arg.value], arg.format)) =>
        ret[1] = [raised |-> "None",
                  value |-> ExpectedFrom(ReferenceTable[arg.value],
                                         arg.format, 1)]

\* C17: in a pattern without single quotes every run of one repeated letter
\* that is a supported token is formatted from the timestamp (hour 0 and 12
\* shown as 12 on the 12-hour clock) and every non-letter character is
\* copied through literally; a single quote is not copied: it opens or
\* closes literal text, and two quotes in a row give one quote.
C17_DateFormat ==
    (/\ calls = <<DATE>>
     /\ arg.value \in DOMAIN ReferenceTable) =>
        LET table == ReferenceTable[arg.value] IN
        /\ (/\ SupportedPattern(table, arg.format)
            /\ \A i \in 1..Len(arg.format) : arg.format[i] # "'") =>
               ret[1] = [raised |-> "None",
                         value |-> ExpectedFrom(table, arg.format, 1)]
        /\ arg.format = <<"'", "a", "t", "'", " ", "h", " ", "a">> =>
               ret[1].value = "at " \o table["h"] \o " " \o table["a"]
        /\ arg.format = <<"'", "'">> => ret[1].value = "'"
        /\ arg.format = <<"'", "y", "'">> => ret[1].value = "y"
        /\ arg.format = <<"'">> => ret[1].value = ""

C17_Witness ==
    /\ calls = <<DATE>>
    /\ arg.value = "2025-12-15T00:05:09Z"
    /\ arg.format = <<"h", "h", ":", "m", " ", "a">>
    /\ ret[1] = [raised |-> "None", value |-> "12:5 AM"]

\* C18: date_filter never raises on a string: the empty string gives the
\* empty string, and a string that is no ISO-8601 timestamp is returned
\* unchanged, whatever the pattern.
C18_DateFilterTotal ==
    calls = <<DATE>> =>
        /\ ret[1].raised = "None"
        /\ arg.value = "" => ret[1].value = ""
        /\ arg.value \in {"not-a-date", "2025-13-45"} =>
               ret[1].value = arg.value

C18_Witness ==
    /\ calls = <<DATE>>
    /\ arg.value = "not-a-date"
    /\ arg.format = <<"y", "y", "y", "y", "-", "M", "M", "-", "d", "d">>
    /\ ret[1] = [raised |-> "None", value |-> "not-a-date"]

\* ------------------------------------------------------------------------
\* markdown_to_word.py: the macro preprocessor.  Markdown text is a sequence
\* of lexemes: ":::", "~", "{color:", "{color}", "{anchor:", a brace, a
\* bracket, a backslash, "=", a quote, an emoticon, a punctuation mark, a
\* blank, a line feed, and words.
\* ------------------------------------------------------------------------

\* PANEL_STYLES.keys()
PANEL_STYLES == {"info", "warning", "note", "tip", "error"}

\* str.strip() on a sequence of lexemes
Strip(xs) ==
    LET S == {k \in 1..Len(xs) : xs[k] \notin {" ", "\n"}}
    IN  IF S = {} THEN << >>
        ELSE Slice(xs, FirstIdx(S), CHOOSE k \in S : \A j \in S : j <= k)

\* render_markdown_fragment on a text of plain lines without blank lines and
\* without markdown syntax: one paragraph, a line break at each line feed
\* (nl2br); nothing for the empty text
render_markdown_fragment(text) ==
    LET Br[k \in 0..Len(text)] ==
            IF k = 0 THEN << >>
            ELSE Br[k - 1] \o (IF text[k] = "\n" THEN <<"<br />", "\n">>
                               ELSE <<text[k]>>)
    IN  IF text = << >> THEN << >>
        ELSE <<"<p>">> \o Br[Len(text)] \o <<"</p>">>

\* parse_param: the value after key, blanks, "=" and blanks, without its
\* quotes, as a string; "" when the key has no value.  A value without
\* quotes is one lexeme.
parse_param(params, key) ==
    LET n == Len(params)
        NonBlank(from) == FirstIdx({k \in from..n : params[k] # " "})
        found == FirstIdx({k \in 1..n :
                    /\ params[k] = key
                    /\ NonBlank(k + 1) # 0
                    /\ params[NonBlank(k + 1)] = "="
                    /\ NonBlank(NonBlank(k + 1) + 1) # 0
                    /\ LET v == NonBlank(NonBlank(k + 1) + 1)
                       IN  params[v] = "\"" =>
                               \E q \in (v + 1)..n : params[q] = "\""})
        v == NonBlank(NonBlank(found + 1) + 1)
        quote == FirstIdx({q \in (v + 1)..n : params[q] = "\""})
    IN  IF found = 0 THEN ""
        ELSE IF params[v] = "\"" THEN Join(Slice(params, v + 1, quote - 1))
        ELSE params[v]

\* The match of one pass's pattern that starts at xs[i]: the index of its
\* last lexeme (0 when the pattern does not match there) and the text the
\* replacer returns for it.  An emoji is written by its code points.
\*   toc               :::toc\s*\n:::
\*   expand            :::expand(?: ([^\n]*))?\n(.*?)\n:::
\*   excerpt           :::excerpt(?: ([^\n]*))?\n(.*?)\n:::
\*   children          :::children(?: ([^\n]*))?\n:::
\*   content-by-label  :::content-by-label(?: ([^\n]*))?\n:::
\*   page-properties   :::page-properties(?: ([^\n]*))?\n(.*?)\n:::
\*   panel             :::(info|warning|note|tip|error)(?: ([^\n]*))?\n(.*?)\n:::
\*   status            \{color:(\w+)\}\\?\[([^\]\\]+)\\?\]\{color\}
\*   names             :([a-zA-Z0-9_-]+):
\*   simple            (^|[\s])<emoticon>(?=$|[\s\.,;:!\?])
\*   shorthand         (^|[\s])\(\s*\\?([ynix\*/\?!])\s*\)(?=$|[\s\.,;:!\?])
\*   strikethrough     ~([^~]+)~
\*   anchor            \{anchor:[^}]+\}
MacroMatch(pass, xs, i) ==
    LET NoMatch == [end |-> 0, out |-> << >>]
        n == Len(xs)
        \* the first line feed at or after i + 2
        nl == FirstIdx({k \in (i + 2)..n : xs[k] = "\n"})
        \* the first line feed after nl that is followed by :::
        close == FirstIdx({k \in (nl + 1)..(n - 1) :
                              xs[k] = "\n" /\ xs[k + 1] = ":::"})
        \* :::<name>, the rest of the line, a line feed
        Opens(names) ==
            /\ i + 2 <= n /\ xs[i] = ":::" /\ xs[i + 1] \in names
            /\ nl # 0 /\ (nl = i + 2 \/ xs[i + 2] = " ")
        \* group 1 of the macro patterns, and (group or "").strip()
        group == Slice(xs, i + 3, nl - 1)
        params == Strip(group)
        title == Strip(Slice(xs, i + 3, nl - 1))
        content == Strip(Slice(xs, nl + 1, close - 1))
        html == render_markdown_fragment(content)
        Attr(name, value) ==
            IF value = "" THEN "" ELSE " data-" \o name \o "=\"" \o value \o "\""
        \* the blanks after :::toc end in a line feed followed by :::
        tocnl == FirstIdx({k \in (i + 2)..(n - 1) :
                              /\ \A j \in (i + 2)..k : xs[j] \in {" ", "\n"}
                              /\ xs[k] = "\n" /\ xs[k + 1] = ":::"})
        tilde == FirstIdx({k \in (i + 1)..n : xs[k] = "~"})
        brace == FirstIdx({k \in (i + 1)..n : xs[k] \in {"}", "{color}"}})
        \* status: the lexeme [ and the lexeme ]
        open == IF i + 3 <= n /\ xs[i + 3] = "\\" THEN i + 4 ELSE i + 3
        shut == FirstIdx({k \in (open + 1)..n : xs[k] \in {"]", "\\"}})
        last == IF shut # 0 /\ xs[shut] = "\\" THEN shut + 2 ELSE shut + 1
        lower == IF xs[i + 1] = "Green" THEN "green"
                 ELSE IF xs[i + 1] = "RED" THEN "red" ELSE xs[i + 1]
        \* emoticons: white space or the start before, and white space,
        \* punctuation or the end after
        Apart == /\ (i = 1 \/ xs[i - 1] \in {" ", "\n"})
                 /\ (i = n \/ xs[i + 1] \in
                                {" ", "\n", ".", ",", ";", ":", "!", "?"})
    IN  CASE pass = "toc" ->
                IF i + 1 <= n /\ xs[i] = ":::" /\ xs[i + 1] = "toc" /\ tocnl # 0
                THEN [end |-> tocnl + 1,
                      out |-> <<"<div class=\"toc-macro\"></div>">>]
                ELSE NoMatch
          [] pass = "expand" ->
                IF Opens({"expand"}) /\ close # 0
                THEN [end |-> close + 1,
                      out |-> <<"<div class=\"expand\" data-title=\""
                                  \o (IF group = << >> THEN "Click to expand"
                                      ELSE Join(params)) \o "\">">>
                                \o html \o <<"</div>">>]
                ELSE NoMatch
          [] pass = "excerpt" ->
                IF Opens({"excerpt"}) /\ close # 0
                THEN [end |-> close + 1,
                      out |-> <<"<div class=\"excerpt\""
                                  \o Attr("name", parse_param(params, "name"))
                                  \o (IF \E k \in 1..Len(params) :
                                            params[k] = "hidden"
                                      THEN " data-hidden=\"true\"" ELSE "")
                                  \o ">">>
                                \o html \o <<"</div>">>]
                ELSE NoMatch
          [] pass = "children" ->
                IF Opens({"children"}) /\ nl < n /\ xs[nl + 1] = ":::"
                THEN [end |-> nl + 1,
                      out |-> <<"<div class=\"children\""
                                  \o Attr("depth", parse_param(params, "depth"))
                                  \o "></div>">>]
                ELSE NoMatch
          [] pass = "content-by-label" ->
                IF Opens({"content-by-label"}) /\ nl < n /\ xs[nl + 1] = ":::"
                THEN [end |-> nl + 1,
                      out |-> <<"<div class=\"content-by-label\""
                                  \o Attr("labels",
                                          parse_param(params, "labels"))
                                  \o Attr("spaces",
                                          parse_param(params, "spaces"))
                                  \o Attr("max", parse_param(params, "max"))
                                  \o "></div>">>]
                ELSE NoMatch
          [] pass = "page-properties" ->
                IF Opens({"page-properties"}) /\ close # 0
                THEN [end |-> close + 1,
                      out |-> <<"<div class=\"page-properties\""
                                  \o Attr("id", parse_param(params, "id"))
                                  \o ">">>
                                \o html \o <<"</div>">>]
                ELSE NoMatch
          [] pass = "panel" ->
                IF Opens(PANEL_STYLES) /\ close # 0
                THEN [end |-> close + 1,
                      out |->
                        IF title # << >>
                        THEN <<"<div class=\"panel panel-" \o xs[i + 1] \o "\">",
                               "<div class=\"panel-title\">">> \o title
                                 \o <<"</div>", "\n", "\n">> \o content
                                 \o <<"\n", "\n", "</div>">>
                        ELSE <<"<div class=\"panel panel-" \o xs[i + 1] \o "\">",
                               "\n", "\n">> \o content
                                 \o <<"\n", "\n", "</div>">>]
                ELSE NoMatch
          [] pass = "status" ->
                IF /\ xs[i] = "{color:" /\ i + 3 <= n /\ xs[i + 2] = "}"
                   /\ xs[i + 1] \notin {" ", "\n", "}", "[", "]", "\\"}
                   /\ open <= n /\ xs[open] = "[" /\ shut > open + 1
                   /\ last <= n /\ xs[last - 1] = "]"
                   /\ xs[last] = "{color}"
                THEN [end |-> last,
                      out |-> <<"<span class=\"status status-" \o lower
                                  \o "\">">>
                                \o Slice(xs, open + 1, shut - 1)
                                \o <<"</span>">>]
                ELSE NoMatch
          [] pass = "names" ->
                CASE xs[i] \in {":warning:", ":Warning:"} ->
                         [end |-> i, out |-> <<"U+26A0 U+FE0F">>]
                  [] xs[i] = ":smile:" -> [end |-> i, out |-> <<"U+1F60A">>]
                  [] xs[i] = ":check:" -> [end |-> i, out |-> <<"U+2705">>]
                  [] OTHER -> NoMatch
          [] pass = "simple" ->
                IF Apart /\ xs[i] \in {":)", ":-)", ":(", ";)", ":D"}
                THEN [end |-> i,
                      out |-> <<CASE xs[i] \in {":)", ":-)"} -> "U+1F60A"
                                  [] xs[i] = ":(" -> "U+1F641"
                                  [] xs[i] = ";)" -> "U+1F609"
                                  [] xs[i] = ":D" -> "U+1F604">>]
                ELSE NoMatch
          [] pass = "shorthand" ->
                IF Apart /\ xs[i] \in {"(y)", "(n)", "(Y)", "(!)"}
                THEN [end |-> i,
                      out |-> <<CASE xs[i] \in {"(y)", "(Y)"} -> "U+1F44D"
                                  [] xs[i] = "(n)" -> "U+1F44E"
                                  [] xs[i] = "(!)" -> "U+26A0 U+FE0F">>]
                ELSE NoMatch
          [] pass = "strikethrough" ->
                IF xs[i] = "~" /\ tilde > i + 1
                THEN [end |-> tilde,
                      out |-> <<"<del>">> \o Slice(xs, i + 1, tilde - 1)
                                  \o <<"</del>">>]
                ELSE NoMatch
          [] pass = "anchor" ->
                IF xs[i] = "{anchor:" /\ brace > i + 1
                THEN [end |-> brace, out |-> << >>]
                ELSE NoMatch

\* re.sub of one pass from xs[i] on: matches are replaced from left to
\* right and do not overlap
RECURSIVE SubFrom(_, _, _)
SubFrom(pass, xs, i) ==
    IF i > Len(xs) THEN << >>
    ELSE LET m == MacroMatch(pass, xs, i) IN
         IF m.end = 0 THEN <<xs[i]>> \o SubFrom(pass, xs, i + 1)
         ELSE m.out \o SubFrom(pass, xs, m.end + 1)

\* :name: codes, then the simple emoticons, then the (x) shorthand
replace_emoticons(text) ==
    SubFrom("shorthand", SubFrom("simple", SubFrom("names", text, 1), 1), 1)

\* mutant: anchors are removed before the strikethrough pass
PassesAnchorFirst ==
    <<"toc", "expand", "excerpt", "children", "content-by-label",
      "page-properties", "panel", "status", "emoticons", "anchor",
      "strikethrough">>

\* The passes in the order preprocess_markdown applies them.
Passes ==
    <<"toc", "expand", "excerpt", "children", "content-by-label",
      "page-properties", "panel", "status", "emoticons", "strikethrough",
      "anchor">>

\* the successive values of result: after each pass, its name and the text
RECURSIVE ApplyPasses(_, _)
ApplyPasses(text, k) ==
    IF k > Len(Passes) THEN << >>
    ELSE LET next == IF Passes[k] = "emoticons" THEN replace_emoticons(text)
                     ELSE SubFrom(Passes[k], text, 1)
         IN  <<[pass |-> Passes[k], result |-> next]>>
                 \o ApplyPasses(next, k + 1)

preprocess_markdown(md_text) ==
    ApplyPasses(md_text, 1)[Len(Passes)].result

\* ------------------------------------------------------------------------
\* markdown_to_word.py: headings.  A tag is a record of its name, its text
\* (get_text(), a sequence of lexemes: numbers, ".", blanks, words) and its
\* children; a text node has the name "#text".  A run is a record of its
\* formatting and its text.
\* ------------------------------------------------------------------------

\* the last lexeme of the match of ^\s*\d+(?:\.\d+)*\.\s+ , or 0
PrefixEnd(text) ==
    LET n == Len(text)
        IsBlank(t) == t \in {" ", "\n"}
        IsNumber(t) == t \in {"1", "2", "6", "7"}
        b == FirstIdx({k \in 1..n : ~IsBlank(text[k])})
        dot == FirstIdx({e \in (b + 1)..(n - 1) :
                   /\ b # 0
                   /\ (e - b) % 2 = 1
                   /\ \A j \in b..e : IF (j - b) % 2 = 0
                                      THEN IsNumber(text[j]) ELSE text[j] = "."
                   /\ IsBlank(text[e + 1])})
        rest == FirstIdx({k \in (dot + 1)..n : ~IsBlank(text[k])})
    IN  IF dot = 0 THEN 0 ELSE IF rest = 0 THEN n ELSE rest - 1

\* mutant: the strip never reports that it changed the text
StripPrefixNeverReported(text) ==
    [text |-> Slice(text, PrefixEnd(text) + 1, Len(text)), stripped |-> FALSE]

\* pattern.sub("", text, count=1), and whether it changed the text
_strip_heading_prefix(text) ==
    [text |-> Slice(text, PrefixEnd(text) + 1, Len(text)),
     stripped |-> PrefixEnd(text) # 0]

\* The attributes of a tag: src (a sequence of lexemes: "/", "?" and
\* pieces without either), alt, and class (a list of class names, each a
\* sequence of lexemes of which "status-" is one).
NoAttrs == [src |-> << >>, alt |-> "", class |-> << >>]

\* The runs _add_image adds to the paragraph.  images maps a file name to
\* what decoding and embedding its data does: "picture", "b64decode" when
\* b64decode raises, "add_picture" when add_picture raises on the run that
\* was added for it.
_add_image(images, src, alt) ==
    LET n == Len(src)
        slash == {k \in 1..n : src[k] = "/"}
        last == IF slash = {} THEN 0
                ELSE CHOOSE k \in slash : \A j \in slash : j <= k
        \* src.split("/")[-1]
        tail == Slice(src, last + 1, n)
        query == FirstIdx({k \in 1..Len(tail) : tail[k] = "?"})
        filename ==
            IF slash # {}
            THEN Join(IF query # 0 THEN Slice(tail, 1, query - 1) ELSE tail)
            ELSE Join(src)
        placeholder ==
            "[Image: " \o (IF alt # "" THEN alt ELSE filename) \o "]"
    IN  IF filename \in DOMAIN images
        THEN IF images[filename] = "picture"
             THEN <<[format |-> "picture", text |-> <<filename>>,
                     width |-> "Inches(5)"]>>
             ELSE (IF images[filename] = "add_picture"
                   THEN <<[format |-> "plain", text |-> << >>]>> ELSE << >>)
                      \o <<[format |-> "italic", text |-> <<placeholder>>]>>
        ELSE <<[format |-> "italic", text |-> <<placeholder>>,
                color |-> "808080"]>>

\* highlight_map.get(color_name, "darkGray")
_add_run_shading(color_name) ==
    CASE color_name \in {"green", "yellow", "red", "blue"} -> color_name
      [] color_name \in {"grey", "gray"} -> "lightGray"
      [] color_name = "purple" -> "darkMagenta"
      [] OTHER -> "darkGray"

\* The runs _add_status_badge adds to the paragraph; color_name is "None"
\* when no class starts with "status-".
_add_status_badge(tag) ==
    LET classes == tag.attrs.class
        first == FirstIdx({k \in 1..Len(classes) :
                              /\ classes[k] # << >>
                              /\ classes[k][1] = "status-"})
        \* cls.replace("status-", "")
        color_name ==
            IF first = 0 THEN "None"
            ELSE Join(SelectSeq(classes[first], LAMBDA t : t # "status-"))
    IN  <<[format |-> "plain", text |-> <<" ">>],
          [format |-> "bold",
           text |-> <<" ">> \o Strip(tag.text) \o <<" ">>,
           color |-> IF color_name \in {"gray", "grey", "yellow"}
                     THEN "000000" ELSE "FFFFFF",
           size |-> "Pt(9)",
           highlight |-> _add_run_shading(color_name)],
          [format |-> "plain", text |-> <<" ">>]>>

\* The loop over tag.children from the first of children on; done is
\* strip_state["done"].  Gives the runs added to the paragraph and the
\* value of done at the end.
RECURSIVE AddChildren(_, _, _, _)
AddChildren(self, children, strip_leading_number, done) ==
    IF children = << >> THEN [runs |-> << >>, done |-> done]
    ELSE LET child == Head(children)
             try == strip_leading_number /\ ~done
             s == _strip_heading_prefix(child.text)
             text == IF try THEN s.text ELSE child.text
             done1 == done \/ (try /\ s.stripped)
             Format(name) ==
                 CASE name \in {"strong", "b"} -> "bold"
                   [] name \in {"em", "i"} -> "italic"
                   [] name = "code" -> "code"
                   [] name = "a" -> "hyperlink"
                   [] name = "del" -> "strike"
             here ==
                 CASE child.name = "#text" ->
                        [runs |-> IF Strip(text) # << >>
                                  THEN <<[format |-> "plain", text |-> text]>>
                                  ELSE << >>,
                         done |-> done1]
                   [] child.name \in
                          {"strong", "b", "em", "i", "code", "a", "del"} ->
                        [runs |-> <<[format |-> Format(child.name),
                                     text |-> text]>>,
                         done |-> done1]
                   [] child.name = "br" ->
                        [runs |-> <<[format |-> "plain", text |-> <<"\n">>]>>,
                         done |-> done]
                   [] child.name = "img" ->
                        [runs |-> _add_image(self.images, child.attrs.src,
                                             child.attrs.alt),
                         done |-> done]
                   [] /\ child.name = "span"
                      /\ \E k \in 1..Len(child.attrs.class) :
                             child.attrs.class[k] = <<"status">> ->
                        [runs |-> _add_status_badge(child), done |-> done]
                   [] OTHER ->
                        AddChildren(self, child.children,
                                    strip_leading_number, done)
             rest == AddChildren(self, Tail(children), strip_leading_number,
                                 here.done)
         IN  [runs |-> here.runs \o rest.runs, done |-> rest.done]

\* mutant: the children of a nested inline element are not visited
AddInlineContentFlat(self, tag, strip_leading_number) ==
    AddChildren(self,
                [k \in DOMAIN tag.children |->
                    [tag.children[k] EXCEPT !.children = << >>]],
                strip_leading_number, FALSE).runs

_add_inline_content(self, tag, strip_leading_number) ==
    IF tag.name = "a"
    THEN <<[format |-> "hyperlink",
            text |-> IF strip_leading_number
                     THEN _strip_heading_prefix(tag.text).text ELSE tag.text]>>
    ELSE AddChildren(self, tag.children, strip_leading_number, FALSE).runs

\* _find_heading_style: the first paragraph style of doc.styles whose name
\* in lower case is "heading <level>", as an index of styles, or 0
_find_heading_style(styles, level) ==
    LET LowerName(name) ==
            CASE name \in {"Heading 1", "HEADING 1"} -> "heading 1"
              [] name \in {"Heading 2", "HEADING 2"} -> "heading 2"
              [] name \in {"Heading 3", "Heading 4", "Heading 5",
                           "Heading 6"} ->
                     "heading " \o ToString(CHOOSE l \in 3..6 :
                                      name = "Heading " \o ToString(l))
              [] OTHER -> name
    IN  FirstIdx({k \in 1..Len(styles) :
                     /\ styles[k].type = "paragraph"
                     /\ LowerName(styles[k].name) = "heading " \o ToString(level)})

\* _style_has_numbering on the style styles[style].  base_style builds a
\* style object for the base each time it is read, so id(current) names the
\* object and not the style: the object of the k-th style on the chain may
\* get the identity of an object that was released before, which is in
\* seen once k >= 4 (the first object is held by the caller, the one before
\* it by current).  reuse is the k at which that happens, 0 when it never
\* does.  Gives whether the loop returns and what.
_style_has_numbering(styles, style, reuse) ==
    LET N == Len(styles)
        \* the style of the k-th object of the walk, 0 for None
        at[k \in 1..(N + 1)] ==
            IF k = 1 THEN style
            ELSE IF at[k - 1] = 0 THEN 0 ELSE styles[at[k - 1]].base
        Numbered(k) == at[k] # 0 /\ styles[at[k]].numPr
        Seen(k) == k >= 4 /\ k = reuse
        stop == FirstIdx({k \in 1..(N + 1) :
                             at[k] = 0 \/ Seen(k) \/ Numbered(k)})
    IN  IF stop # 0
        THEN [returned |-> TRUE,
              value |-> at[stop] # 0 /\ ~Seen(stop) /\ Numbered(stop)]
        \* a cycle without a numbering reference
        ELSE [returned |-> reuse >= 4, value |-> FALSE]

\* _detect_numbered_headings; reuse[level] is the reuse of the walk for the
\* level
_detect_numbered_headings(styles, reuse) ==
    LET Walk(level) ==
            LET style == _find_heading_style(styles, level)
            IN  IF style # 0
                THEN _style_has_numbering(styles, style, reuse[level])
                ELSE [returned |-> TRUE, value |-> FALSE]
    IN  [returned |-> \A level \in 1..6 : Walk(level).returned,
         value |-> [level \in 1..6 |-> Walk(level).value]]

\* MarkdownToWordConverter.__init__: whether it returns, and the converter
__init__(template, images, reuse) ==
    LET numbered == _detect_numbered_headings(template, reuse)
    IN  [returned |-> numbered.returned,
         template |-> template,
         images |-> images,
         heading_numbered |-> numbered.value]

\* _process_tag: the blocks added to the subdocument.  A paragraph is a
\* block with its runs; the handlers of lists, tables and macro containers
\* are blocks that name the handler and the tag handed to it.  (The parser
\* gives tag names in lower case.)
RECURSIVE _process_tag(_, _)
_process_tag(self, tag) ==
    LET tag_name == tag.name
        Paragraph(kind, runs) == [block |-> kind, runs |-> runs]
        Handler(name) == [block |-> name, tag |-> tag]
        Italic(run) == [run EXCEPT !.format = "italic"]
        IsTagNode(child) == child.name # "#text"
        Has(class) == \E k \in 1..Len(tag.attrs.class) :
                          tag.attrs.class[k] = <<class>>
        \* the first class that starts with "panel-" and is not "panel-title"
        panel == FirstIdx({k \in 1..Len(tag.attrs.class) :
                              /\ tag.attrs.class[k] # << >>
                              /\ tag.attrs.class[k][1] = "panel-"
                              /\ tag.attrs.class[k] # <<"panel-", "title">>})
        panel_type ==
            IF panel = 0 THEN "None"
            ELSE Join(SelectSeq(tag.attrs.class[panel],
                                LAMBDA t : t # "panel-"))
        code == FirstIdx({k \in 1..Len(tag.children) :
                             tag.children[k].name = "code"})
        Each[k \in 0..Len(tag.children)] ==
            IF k = 0 THEN << >>
            ELSE LET child == tag.children[k] IN
                 Each[k - 1] \o
                 CASE tag_name = "blockquote" ->
                        IF child.name = "p"
                        THEN <<[block |-> "quote",
                                runs |-> [i \in DOMAIN
                                            _add_inline_content(self, child,
                                                                FALSE) |->
                                          Italic(_add_inline_content(
                                                     self, child, FALSE)[i])]]>>
                        ELSE << >>
                  [] tag_name \in {"section", "article"} ->
                        IF IsTagNode(child) THEN _process_tag(self, child)
                        ELSE << >>
                  [] OTHER ->
                        IF IsTagNode(child) THEN _process_tag(self, child)
                        ELSE IF Strip(child.text) # << >>
                        THEN <<Paragraph("text",
                                 <<[format |-> "plain",
                                    text |-> Strip(child.text)]>>)>>
                        ELSE << >>
        blocks ==
            CASE tag_name \in {"h1", "h2", "h3", "h4", "h5", "h6"} ->
                   LET level == CHOOSE l \in 1..6 :
                                    tag_name = "h" \o ToString(l)
                   IN  <<[block |-> "heading",
                          style |-> "Heading " \o ToString(level),
                          runs |-> _add_inline_content(
                                       self, tag,
                                       self.heading_numbered[level])]>>
              [] tag_name = "p" ->
                   <<Paragraph("p", _add_inline_content(self, tag, FALSE))>>
              [] tag_name \in {"ul", "ol"} -> <<Handler("_process_list")>>
              [] tag_name = "pre" ->
                   <<Paragraph("pre",
                       <<[format |-> "code",
                          text |-> IF code # 0 THEN tag.children[code].text
                                   ELSE tag.text]>>)>>
              [] tag_name = "img" ->
                   <<Paragraph("img", _add_image(self.images, tag.attrs.src,
                                                 tag.attrs.alt))>>
              [] tag_name = "blockquote" -> Each[Len(tag.children)]
              [] tag_name = "table" -> <<Handler("_process_table")>>
              [] tag_name = "hr" -> <<Paragraph("hr", << >>)>>
              [] tag_name = "div" ->
                   IF Has("toc-macro")
                   THEN <<Handler("_insert_toc_macro_output")>>
                   ELSE IF Has("expand") THEN <<Handler("_process_expand")>>
                   ELSE IF Has("children")
                   THEN <<Handler("_process_children_macro")>>
                   ELSE IF Has("content-by-label")
                   THEN <<Handler("_process_content_by_label_macro")>>
                   ELSE IF panel_type \in PANEL_STYLES
                   THEN <<Handler("_process_panel")>>
                   ELSE Each[Len(tag.children)]
              [] tag_name \in {"section", "article"} -> Each[Len(tag.children)]
              [] OTHER ->
                   <<Paragraph("unknown",
                               _add_inline_content(self, tag, FALSE))>>
    IN  blocks

\* ------------------------------------------------------------------------
\* The markdown specification: one call of the preprocessor on a text, or a
\* converter built for a template and one tag of the parsed HTML handed to
\* its walker.
\* ------------------------------------------------------------------------

MaxSegments == 2

NoBlock == [type |-> "", title |-> << >>, body |-> << >>]

\* a panel block is its type, the rest of its first line and its body
\* lines
MarkdownArgs ==
    LET PanelBlocks ==
            [type : PANEL_STYLES,
             title : {<< >>, <<" ">>, <<" ", "Title">>,
                      <<" ", "Important", " ", "Note">>},
             body : {<< >>, <<"\n">>, <<"Body", "\n">>,
                     <<"First", " ", "line", "\n", "Second", "\n">>}]
    IN  [kind : {"markdown"},
         before : {<< >>, <<"Intro", "\n", "\n">>,
                   <<":::", "toc", "\n", ":::", "\n">>},
         first : PanelBlocks,
         second : {NoBlock} \cup {b \in PanelBlocks :
                                     /\ b.type \in {"warning", "error"}
                                     /\ b.title \in {<< >>, <<" ", "Title">>}
                                     /\ b.body \in {<< >>, <<"Body", "\n">>}},
         after : {<< >>, <<"\n", "~", "old", "~">>}]

\* texts with each macro of the preprocessor, and texts where one macro
\* stands inside another
MacroArgs ==
    [kind : {"macros"},
     text : {
         <<":::", "toc", "\n", ":::">>,
         <<":::", "toc", " ", "\n", "\n", ":::", "\n", "Text">>,
         <<":::", "expand", " ", "Details", "\n", "Body", "\n", ":::">>,
         <<":::", "expand", "\n", "First", "\n", "Second", "\n", ":::">>,
         <<":::", "expand", " ", "\n", "Body", "\n", ":::">>,
         <<":::", "excerpt", " ", "name", "=", "intro", " ", "hidden", "\n",
           "Body", "\n", ":::">>,
         <<":::", "excerpt", "\n", "Body", "\n", ":::">>,
         <<":::", "excerpt", " ", "name", " ", "=", "\"", "my", " ", "part",
           "\"", "\n", "Body", "\n", ":::">>,
         <<":::", "children", " ", "depth", "=", "2", "\n", ":::">>,
         <<":::", "children", "\n", ":::">>,
         <<":::", "content-by-label", " ", "labels", "=", "a", " ", "max",
           "=", "5", "\n", ":::">>,
         <<":::", "content-by-label", " ", "spaces", "=", "DOC", "\n", ":::">>,
         <<":::", "page-properties", " ", "id", "=", "p1", "\n", "Body",
           "\n", ":::">>,
         <<":::", "page-properties", "\n", "Body", "\n", ":::">>,
         <<":::", "info", " ", "Title", "\n", "Body", "\n", ":::">>,
         <<"{color:", "red", "}", "[", "DONE", "]", "{color}">>,
         <<"{color:", "Green", "}", "\\", "[", "IN", " ", "WORK", "\\", "]",
           "{color}">>,
         <<"{color:", "red", "}", "[", "]", "{color}">>,
         <<"Done", " ", ":)", " ", ":warning:", " ", "(y)", ".">>,
         <<":unknown:", "x", ":)", " ", ":Warning:", ":D">>,
         <<":-)", "\n", ";)", ",", " ", "(n)", "x">>,
         <<"~", "old", "~">>,
         <<"~", "~", "a", "~", "~">>,
         <<"{anchor:", "top", "}", "Text">>,
         <<"{anchor:", "}", "Text">>,
         <<"~", "{anchor:", "x", "}", "~">>,
         <<":::", "expand", "\n", ":::", "toc", "\n", ":::">>,
         <<":::", "excerpt", "\n", ":::", "expand", "\n", "x", "\n", ":::">>,
         <<":::", "children", "\n", ":::", "excerpt", "\n", "x", "\n", ":::">>,
         <<":::", "content-by-label", "\n", ":::", "children", "\n", ":::">>,
         <<":::", "page-properties", "\n", ":::", "content-by-label", "\n",
           ":::">>,
         <<":::", "info", "\n", ":::", "page-properties", "\n", "x", "\n",
           ":::">>,
         <<"{color:", "red", "}", "[", ":::", "info", "\n", "x", "\n", ":::",
           "]", "{color}">>,
         <<"{color:", "red", "}", "[", " ", ":)", " ", "]", "{color}">>,
         <<"{color:", "red", "}", "[", "a", "]", "{color}", " ", ":)", "~",
           "b", "~">>,
         <<"~", " ", "(y)", " ", "~", "{anchor:", "a", "}">>}]

HeadingChildren ==
    LET HeadingTexts ==
            {<<"Title">>, <<" ">>, <<"6", ".", " ", "Title">>,
             <<"1", ".", "2", ".", " ", "Title">>, <<"6", ".", "Title">>,
             <<"1", ".", "2", " ", "Title">>,
             <<" ", "6", ".", " ", " ", "Title">>,
             <<"6", ".", " ", "7", ".", " ", "Title">>}
        Leaf(names, texts) ==
            [name : names, text : texts, children : {<< >>},
             attrs : {NoAttrs}]
        leaves == Leaf({"#text", "strong"}, HeadingTexts)
                    \cup Leaf({"br"}, {<< >>})
                    \cup Leaf({"a"}, {<<"6", ".", " ", "Title">>})
        spans == {[name |-> "span", text |-> c.text, children |-> <<c>>,
                   attrs |-> NoAttrs] :
                     c \in Leaf({"#text"},
                                {<<"Title">>, <<"6", ".", " ", "Title">>})}
    IN  UNION {[1..n -> leaves \cup spans] : n \in 1..MaxSegments}

\* a template whose styles are the six heading styles, those of the levels
\* in S with a numbering reference of their own
HeadingArgs ==
    [kind : {"heading"},
     template : {[l \in 1..6 |->
                     [type |-> "paragraph", name |-> "Heading " \o ToString(l),
                      numPr |-> l \in S, base |-> 0]] :
                    S \in {{}, {2}, 1..6}},
     images : {<< >>},
     reuse : {[l \in 1..6 |-> 0]},
     tag : {[name |-> h, text |-> << >>, children |-> c, attrs |-> NoAttrs] :
               h \in {"h1", "h2"}, c \in HeadingChildren}]

\* Templates with inheritance chains and cycles among five styles (the
\* styles of the first two heading levels and three more), and tags with
\* images, status badges and names of every branch of the walker.
ConverterArgs ==
    LET Style(type, name, numPr, base) ==
            [type |-> type, name |-> name, numPr |-> numPr, base |-> base]
        Node(name, text, children) ==
            [name |-> name, text |-> text, children |-> children,
             attrs |-> NoAttrs]
        Text(text) == Node("#text", text, << >>)
        Templates ==
            {<<Style("paragraph", "Heading 1", n1, b1), h2,
               Style("paragraph", "A", FALSE, b3),
               Style("paragraph", "B", FALSE, b4),
               Style("paragraph", "C", n5, b5)>> :
                 n1 \in BOOLEAN, b1 \in {0, 3},
                 h2 \in {Style("paragraph", "Heading 2", TRUE, 0),
                         Style("paragraph", "HEADING 2", FALSE, 3),
                         Style("character", "Heading 2", TRUE, 0),
                         Style("paragraph", "Heading 2", FALSE, 2)},
                 b3 \in {0, 1, 4}, b4 \in {0, 3, 5},
                 n5 \in BOOLEAN, b5 \in {0, 1}}
        Plain == <<Style("paragraph", "Normal", FALSE, 0),
                   Style("paragraph", "Heading 1", FALSE, 1)>>
        Numbered == Text(<<"6", ".", " ", "Title">>)
        Img(src, alt) ==
            [name |-> "img", text |-> << >>, children |-> << >>,
             attrs |-> [src |-> src, alt |-> alt, class |-> << >>]]
        Sources ==
            {<<"diagram.png">>, <<"diagram.png", "?", "version=2">>,
             <<"https:", "/", "/", "host", "/", "wiki", "/", "diagram.png",
               "?", "v=2">>,
             <<"attachments", "/", "other.png">>, <<"attachments", "/">>,
             << >>}
        Span(classes, text) ==
            [name |-> "span", text |-> text, children |-> <<Text(text)>>,
             attrs |-> [src |-> << >>, alt |-> "", class |-> classes]]
        Colors == {"green", "yellow", "red", "blue", "grey", "gray",
                   "purple", "orange", "Green"}
        Badges ==
            {Span(<<<<"status">>, <<"status-", c>>>>, t) :
                 c \in Colors, t \in {<<"DONE">>, <<" ", "IN", " ", "WORK">>}}
              \cup {Span(<<<<"status">>>>, <<"DONE">>),
                    Span(<<<<"status-", "red">>, <<"status">>>>, <<"DONE">>)}
        Inline ==
            {<<Text(<<"Hello">>)>>,
             <<Text(<<"See", " ">>),
               Node("strong", <<"this">>, <<Text(<<"this">>)>>)>>,
             <<Node("u", <<"under", "bold">>,
                    <<Text(<<"under">>),
                      Node("strong", <<"bold">>, <<Text(<<"bold">>)>>)>>)>>,
             <<Node("p", <<"Quote">>, <<Text(<<"Quote">>)>>),
               Text(<<" ", "loose", " ">>),
               Node("code", <<"x", "=", "1">>,
                    <<Text(<<"x", "=", "1">>)>>)>>,
             << >>}
        Names == {"p", "ul", "ol", "pre", "blockquote", "table", "hr",
                  "section", "article", "figure", "details", "center",
                  "custom-tag", "span", "a", "h3", "h7", "div"}
        Classes == {<< >>, <<<<"toc-macro">>>>, <<<<"expand">>>>,
                    <<<<"children">>>>, <<<<"content-by-label">>>>,
                    <<<<"panel">>, <<"panel-", "info">>>>,
                    <<<<"panel-", "title">>>>, <<<<"panel-", "custom">>>>}
        GetText(c) ==
            LET F[k \in 0..Len(c)] ==
                    IF k = 0 THEN << >> ELSE F[k - 1] \o c[k].text
            IN  F[Len(c)]
    IN  [kind : {"template"}, template : Templates, images : {<< >>},
         reuse : {[l \in 1..6 |-> IF l = 1 THEN r1 ELSE IF l = 2 THEN r2
                                  ELSE 0] :
                     r1 \in {0, 4, 5}, r2 \in {0, 4}},
         tag : {Node("h1", <<"6", ".", " ", "Title">>, <<Numbered>>)}]
        \cup
        [kind : {"image"}, template : {Plain},
         images : {<< >>} \cup {"diagram.png" :> outcome :
                                   outcome \in {"picture", "b64decode",
                                                "add_picture"}},
         reuse : {[l \in 1..6 |-> 0]},
         tag : {Img(src, alt) : src \in Sources, alt \in {"", "My Image"}}
                 \cup {Node("p", <<"See">>,
                            <<Text(<<"See">>), Img(src, "")>>) :
                          src \in Sources}]
        \cup
        [kind : {"badge"}, template : {Plain}, images : {<< >>},
         reuse : {[l \in 1..6 |-> 0]},
         tag : {Node("p", <<"Status">> \o b.text,
                     <<Text(<<"Status">>), b>>) : b \in Badges}]
        \cup
        [kind : {"tag"}, template : {Plain}, images : {<< >>},
         reuse : {[l \in 1..6 |-> 0]},
         tag : {[name |-> n, text |-> GetText(c), children |-> c,
                 attrs |-> [src |-> << >>, alt |-> "",
                            class |-> IF n = "div" THEN cl ELSE << >>]] :
                    n \in Names, c \in Inline, cl \in Classes}]

MarkdownOf(a) ==
    LET Text(b) ==
            IF b = NoBlock THEN << >>
            ELSE <<":::", b.type>> \o b.title \o <<"\n">> \o b.body
                     \o <<":::", "\n">>
    IN  IF a.kind = "macros" THEN a.text
        ELSE a.before \o Text(a.first)
                 \o (IF a.second = NoBlock THEN << >> ELSE <<"\n">>)
                 \o Text(a.second) \o a.after

InitMarkdown ==
    /\ Library
    /\ arg \in MarkdownArgs \cup MacroArgs \cup HeadingArgs \cup ConverterArgs
    /\ ret = << >>
    /\ calls = << >>

\* ret[1] is the text returned, ret[2] the successive values of result
CallPreprocess ==
    /\ calls = << >>
    /\ arg.kind \in {"markdown", "macros"}
    /\ ret' = <<preprocess_markdown(MarkdownOf(arg)),
                ApplyPasses(MarkdownOf(arg), 1)>>
    /\ calls' = <<"preprocess_markdown">>
    /\ UNCHANGED arg
    /\ UNCHANGED sysvars

\* MarkdownToWordConverter(template, images): ret[1] is the converter
Construct ==
    /\ calls = << >>
    /\ arg.kind \notin {"markdown", "macros"}
    /\ ret' = <<__init__(arg.template, arg.images, arg.reuse)>>
    /\ calls' = <<"__init__">>
    /\ UNCHANGED arg
    /\ UNCHANGED sysvars

\* converter._process_tag(tag, subdoc): ret[1] is the converter after the
\* call, which assigns none of its attributes, ret[2] the subdocument
CallProcessTag ==
    /\ calls = <<"__init__">>
    /\ ret[1].returned
    /\ ret' = <<ret[1], _process_tag(ret[1], arg.tag)>>
    /\ calls' = <<"__init__", "_process_tag">>
    /\ UNCHANGED arg
    /\ UNCHANGED sysvars

NextMarkdown == CallPreprocess \/ Construct \/ CallProcessTag

SpecMarkdown == InitMarkdown /\ [][NextMarkdown]_vars

\* ------------------------------------------------------------------------
\* Properties of the macro preprocessor and of headings
\* ------------------------------------------------------------------------

PREPROCESS == "preprocess_markdown"

PROCESS_TAG == <<"__init__", "_process_tag">>

\* the container a panel block is to become
PanelContainer(b) ==
    LET title == IF b.title \in {<< >>, <<" ">>} THEN << >> ELSE Tail(b.title)
        body == IF b.body \in {<< >>, <<"\n">>} THEN << >>
                ELSE SubSeq(b.body, 1, Len(b.body) - 1)
        open == "<div class=\"panel panel-" \o b.type \o "\">"
    IN  IF b = NoBlock THEN << >>
        ELSE (IF title # << >>
              THEN <<open, "<div class=\"panel-title\">">> \o title
                       \o <<"</div>">>
              ELSE <<open>>)
                 \o <<"\n", "\n">> \o body \o <<"\n", "\n", "</div>", "\n">>

WithoutPrefix(text) ==
    CASE text \in {<<"6", ".", " ", "Title">>,
                   <<"1", ".", "2", ".", " ", "Title">>,
                   <<" ", "6", ".", " ", " ", "Title">>} -> <<"Title">>
      [] text = <<"6", ".", " ", "7", ".", " ", "Title">> ->
             <<"7", ".", " ", "Title">>
      [] OTHER -> text

\* the inline segments of a heading in document order: the children, with
\* a span replaced by its children
Segments(tag) ==
    LET Count(c) == IF c.name = "span" THEN Len(c.children) ELSE 1
        F[k \in 0..Len(tag.children)] ==
            IF k = 0 THEN << >>
            ELSE F[k - 1] \o (IF tag.children[k].name = "span"
                              THEN tag.children[k].children
                              ELSE <<tag.children[k]>>)
    IN  F[Len(tag.children)]

\* C20: when the heading's level is flagged as auto-numbered the numeric
\* prefix is removed at the first inline segment where it matches and
\* nowhere else, every other segment being emitted as it is; when the level
\* is not flagged every segment is emitted as it is.  (A text node of
\* blanks only adds no run, flagged or not; a line break takes no part.)
C20_HeadingPrefix ==
    (calls = PROCESS_TAG /\ arg.kind = "heading") =>
        LET segs == Segments(arg.tag)
            level == IF arg.tag.name = "h1" THEN 1 ELSE 2
            Matches(i) == /\ segs[i].name # "br"
                          /\ WithoutPrefix(segs[i].text) # segs[i].text
            first == IF arg.template[level].numPr
                     THEN FirstIdx({i \in 1..Len(segs) : Matches(i)}) ELSE 0
            Emitted(i) == IF segs[i].name = "br" THEN <<"\n">>
                          ELSE IF i = first THEN WithoutPrefix(segs[i].text)
                          ELSE segs[i].text
            Adds(i) == segs[i].name = "#text" =>
                           \E k \in 1..Len(Emitted(i)) : Emitted(i)[k] # " "
            kept == {i \in 1..Len(segs) : Adds(i)}
            runs == ret[2][1].runs
        IN  /\ Len(runs) = Cardinality(kept)
            /\ \A i \in kept :
                   runs[Cardinality({j \in kept : j <= i})].text = Emitted(i)

C20_Witness ==
    /\ calls = PROCESS_TAG
    /\ arg.tag.name = "h2"
    /\ arg.template[2].numPr /\ ~arg.template[1].numPr
    /\ arg.tag.children =
           <<[name |-> "strong", text |-> <<"Title">>, children |-> << >>,
              attrs |-> NoAttrs],
             [name |-> "#text",
              text |-> <<"6", ".", " ", "7", ".", " ", "Title">>,
              children |-> << >>, attrs |-> NoAttrs]>>
    /\ ret[2][1].runs = <<[format |-> "bold", text |-> <<"Title">>],
                       [format |-> "plain",
                        text |-> <<"7", ".", " ", "Title">>]>>

\* the text the preprocessor is to return for a text, its passes applied
\* once each in their order (an emoji is written by its code points)
MacroOutput(md) ==
    CASE md = ":::toc\n:::" ->
             "<div class=\"toc-macro\"></div>"
      [] md = ":::toc \n\n:::\nText" ->
             "<div class=\"toc-macro\"></div>\nText"
      [] md = ":::expand Details\nBody\n:::" ->
             "<div class=\"expand\" data-title=\"Details\"><p>Body</p></div>"
      [] md = ":::expand\nFirst\nSecond\n:::" ->
             "<div class=\"expand\" data-title=\"Click to expand\"><p>First<br />\nSecond</p></div>"
      [] md = ":::expand \nBody\n:::" ->
             "<div class=\"expand\" data-title=\"Click to expand\"><p>Body</p></div>"
      [] md = ":::excerpt name=intro hidden\nBody\n:::" ->
             "<div class=\"excerpt\" data-name=\"intro\" data-hidden=\"true\"><p>Body</p></div>"
      [] md = ":::excerpt\nBody\n:::" ->
             "<div class=\"excerpt\"><p>Body</p></div>"
      [] md = ":::excerpt name =\"my part\"\nBody\n:::" ->
             "<div class=\"excerpt\" data-name=\"my part\"><p>Body</p></div>"
      [] md = ":::children depth=2\n:::" ->
             "<div class=\"children\" data-depth=\"2\"></div>"
      [] md = ":::children\n:::" ->
             "<div class=\"children\"></div>"
      [] md = ":::content-by-label labels=a max=5\n:::" ->
             "<div class=\"content-by-label\" data-labels=\"a\" data-max=\"5\"></div>"
      [] md = ":::content-by-label spaces=DOC\n:::" ->
             "<div class=\"content-by-label\" data-spaces=\"DOC\"></div>"
      [] md = ":::page-properties id=p1\nBody\n:::" ->
             "<div class=\"page-properties\" data-id=\"p1\"><p>Body</p></div>"
      [] md = ":::page-properties\nBody\n:::" ->
             "<div class=\"page-properties\"><p>Body</p></div>"
      [] md = ":::info Title\nBody\n:::" ->
             "<div class=\"panel panel-info\"><div class=\"panel-title\">Title</div>\n\nBody\n\n</div>"
      [] md = "{color:red}[DONE]{color}" ->
             "<span class=\"status status-red\">DONE</span>"
      [] md = "{color:Green}\\[IN WORK\\]{color}" ->
             "<span class=\"status status-green\">IN WORK</span>"
      [] md = "{color:red}[]{color}" ->
             "{color:red}[]{color}"
      [] md = "Done :) :warning: (y)." ->
             "Done U+1F60A U+26A0 U+FE0F U+1F44D."
      [] md = ":unknown:x:) :Warning::D" ->
             ":unknown:x:) U+26A0 U+FE0F:D"
      [] md = ":-)\n;), (n)x" ->
             "U+1F60A\nU+1F609, (n)x"
      [] md = "~old~" ->
             "<del>old</del>"
      [] md = "~~a~~" ->
             "~<del>a</del>~"
      [] md = "{anchor:top}Text" ->
             "Text"
      [] md = "{anchor:}Text" ->
             "{anchor:}Text"
      [] md = "~{anchor:x}~" ->
             "<del></del>"
      [] md = ":::expand\n:::toc\n:::" ->
             ":::expand\n<div class=\"toc-macro\"></div>"
      [] md = ":::excerpt\n:::expand\nx\n:::" ->
             ":::excerpt\n<div class=\"expand\" data-title=\"Click to expand\"><p>x</p></div>"
      [] md = ":::children\n:::excerpt\nx\n:::" ->
             ":::children\n<div class=\"excerpt\"><p>x</p></div>"
      [] md = ":::content-by-label\n:::children\n:::" ->
             ":::content-by-label\n<div class=\"children\"></div>"
      [] md = ":::page-properties\n:::content-by-label\n:::" ->
             ":::page-properties\n<div class=\"content-by-label\"></div>"
      [] md = ":::info\n:::page-properties\nx\n:::" ->
             ":::info\n<div class=\"page-properties\"><p>x</p></div>"
      [] md = "{color:red}[:::info\nx\n:::]{color}" ->
             "<span class=\"status status-red\"><div class=\"panel panel-info\">\n\nx\n\n</div></span>"
      [] md = "{color:red}[ :) ]{color}" ->
             "<span class=\"status status-red\"> U+1F60A </span>"
      [] md = "{color:red}[a]{color} :)~b~" ->
             "<span class=\"status status-red\">a</span> :)<del>b</del>"
      [] md = "~ (y) ~{anchor:a}" ->
             "<del> U+1F44D </del>"

\* C23: the passes run once each in the order TOC, expand, excerpt,
\* children, content-by-label, page-properties, panels, status badges,
\* emoticons, single-tilde strikethrough, anchor removal, each on the result
\* of the one before; the text returned is that of the last pass.
C23_PassOrder ==
    (calls = <<PREPROCESS>> /\ arg.kind = "macros") =>
        /\ [k \in DOMAIN ret[2] |-> ret[2][k].pass] =
               <<"toc", "expand", "excerpt", "children", "content-by-label",
                 "page-properties", "panel", "status", "emoticons",
                 "strikethrough", "anchor">>
        /\ ret[1] = ret[2][Len(ret[2])].result
        /\ Join(ret[1]) = MacroOutput(Join(arg.text))

C23_Witness ==
    /\ calls = <<PREPROCESS>>
    /\ arg.kind = "macros"
    /\ arg.text = <<"~", "{anchor:", "x", "}", "~">>
    /\ ret[2][10].result = <<"<del>", "{anchor:", "x", "}", "</del>">>
    /\ ret[1] = <<"<del>", "</del>">>

\* the img tag of an image input, and the runs added for it
ImageTag == IF arg.tag.name = "img" THEN arg.tag ELSE arg.tag.children[2]

ImageRuns ==
    LET runs == ret[2][1].runs
    IN  IF arg.tag.name = "img" THEN runs ELSE Tail(runs)

\* the file name of an image reference: the reference without its path and
\* without its query string
FileName(src) ==
    CASE src \in {<<"diagram.png">>, <<"diagram.png", "?", "version=2">>,
                  <<"https:", "/", "/", "host", "/", "wiki", "/",
                    "diagram.png", "?", "v=2">>} -> "diagram.png"
      [] src = <<"attachments", "/", "other.png">> -> "other.png"
      [] OTHER -> ""

\* C21: an image reference is resolved by its file name with the path and
\* the query string stripped; when the file name is a key of the image map
\* and its data decodes, the picture is embedded at the fixed width;
\* otherwise (no such key, or decoding or embedding fails) the last run
\* added is the italic placeholder "[Image: <alt-or-filename>]".
C21_ImageResolved ==
    (calls = PROCESS_TAG /\ arg.kind = "image") =>
        LET filename == FileName(ImageTag.attrs.src)
            alt == ImageTag.attrs.alt
            last == ImageRuns[Len(ImageRuns)]
        IN  /\ ImageRuns # << >>
            /\ IF /\ filename \in DOMAIN arg.images
                  /\ arg.images[filename] = "picture"
               THEN ImageRuns = <<[format |-> "picture",
                                   text |-> <<filename>>,
                                   width |-> "Inches(5)"]>>
               ELSE /\ last.format = "italic"
                    /\ last.text = <<"[Image: "
                                       \o (IF alt # "" THEN alt ELSE filename)
                                       \o "]">>

\* the color name of a badge: what follows "status-" in its classes
ColorName(tag) ==
    LET named == {k \in 1..Len(tag.attrs.class) :
                     Len(tag.attrs.class[k]) = 2}
    IN  IF named = {} THEN "None"
        ELSE tag.attrs.class[CHOOSE k \in named : TRUE][2]

\* C25: a badge whose color name is not in the known table has the
\* highlight of a "gray" badge; for the known names the foreground is dark
\* on gray, grey and yellow and white otherwise.
C25_BadgeColors ==
    (calls = PROCESS_TAG /\ arg.kind = "badge") =>
        LET badge == ret[2][1].runs[3]
            color_name == ColorName(arg.tag.children[2])
        IN  IF color_name \in {"green", "yellow", "red", "blue", "grey",
                               "gray", "purple"}
            THEN badge.color = IF color_name \in {"gray", "grey", "yellow"}
                               THEN "000000" ELSE "FFFFFF"
            ELSE badge.highlight = "lightGray"

\* the runs of the inline contents of the tags handed to the walker, by
\* their text
InlineRuns(text) ==
    LET Run(format, t) == [format |-> format, text |-> t]
    IN  CASE text = <<"Hello">> -> <<Run("plain", <<"Hello">>)>>
          [] text = <<"See", " ", "this">> ->
                 <<Run("plain", <<"See", " ">>), Run("bold", <<"this">>)>>
          [] text = <<"under", "bold">> ->
                 <<Run("plain", <<"under">>), Run("bold", <<"bold">>)>>
          [] text = <<"Quote", " ", "loose", " ", "x", "=", "1">> ->
                 <<Run("plain", <<"Quote">>),
                   Run("plain", <<" ", "loose", " ">>),
                   Run("code", <<"x", "=", "1">>)>>
          [] text = << >> -> << >>

\* the one handler of a tag: by its name and, for a div, its classes
HandlerOf(tag) ==
    LET Has(class) == \E k \in 1..Len(tag.attrs.class) :
                          tag.attrs.class[k] = <<class>>
    IN  CASE tag.name \in {"h1", "h2", "h3", "h4", "h5", "h6"} -> "heading"
          [] tag.name \in {"p", "pre", "hr"} -> tag.name
          [] tag.name \in {"ul", "ol"} -> "_process_list"
          [] tag.name = "table" -> "_process_table"
          [] tag.name \in {"blockquote", "section", "article"} -> "children"
          [] tag.name = "div" ->
                 IF Has("toc-macro") THEN "_insert_toc_macro_output"
                 ELSE IF Has("expand") THEN "_process_expand"
                 ELSE IF Has("children") THEN "_process_children_macro"
                 ELSE IF Has("content-by-label")
                 THEN "_process_content_by_label_macro"
                 ELSE IF Has("panel") THEN "_process_panel"
                 ELSE "children"
          [] OTHER -> "unknown"

CONSTRUCTED == <<"__init__">>

\* the styles on the inheritance chain of the heading style of a level: the
\* heading style and every style reached from it by "based on"
ChainOf(template, level) ==
    LET heading == {k \in 1..Len(template) :
                       /\ template[k].type = "paragraph"
                       /\ template[k].name \in
                              {"Heading " \o ToString(level),
                               "HEADING " \o ToString(level)}}
        Reach[n \in 0..Len(template)] ==
            IF n = 0 THEN heading
            ELSE Reach[n - 1] \cup
                     ({template[k].base : k \in Reach[n - 1]} \ {0})
    IN  Reach[Len(template)]

\* C26: the detection returns for every inheritance chain, also one with a
\* cycle, and flags a level exactly when some style on the chain of its
\* heading style carries a numbering reference; the six flags are there
\* once the converter is constructed, before any heading is emitted, and a
\* conversion leaves them as they are.
C26_NumberingDetection ==
    /\ [](calls = CONSTRUCTED => ret[1].returned)
    /\ [](calls # << >> /\ calls[1] = "__init__" /\ ret[1].returned =>
             \A level \in 1..6 :
                 ret[1].heading_numbered[level] =
                     \E k \in ChainOf(arg.template, level) :
                         arg.template[k].numPr)
    /\ [][calls' = PROCESS_TAG =>
             /\ calls = CONSTRUCTED
             /\ ret'[1].heading_numbered = ret[1].heading_numbered]_vars

\* ------------------------------------------------------------------------
\* Properties of split-run repair, promotion and detection
\* ------------------------------------------------------------------------

\* the two runs with the last $ of the first text moved to the front of the
\* second text
DollarMoved(a) ==
    <<"<w:r>", "<w:t>">> \o SubSeq(a.before, 1, Len(a.before) - 1)
        \o <<"</w:t>">> \o a.ppr \o <<"<w:t>", "$">> \o a.follow
        \o <<"</w:t>", "</w:r>">> \o a.after

\* only markup stands between the two texts, and the second starts with
\* scroll. or !scroll.
SplitAcrossMarkup(a) ==
    /\ \A i \in 1..Len(a.ppr) : IsTag(a.ppr[i])
    /\ a.follow[1] \in {"scroll", "!"}

HoldsNativeContent(text) ==
    \E i \in 1..Len(text) : \E j \in (i + 2)..Len(text) :
        /\ text[i] = "{{" /\ text[j] = "}}"
        /\ \E k \in (i + 1)..(j - 1) :
               /\ text[k] = "content"
               /\ \A m \in ((i + 1)..(j - 1)) \ {k} : text[m] = " "

\* C27: promotion changes nothing outside the paragraph that holds the
\* content placeholder: the text before it and the text after it are in the
\* result as they were, and a text without {{ content }} is returned as it
\* is.
C27_PromotionLocal ==
    /\ (calls = <<FIX>> /\ ~HoldsNativeContent(ret[1])) => ret[2] = ret[1]
    /\ (calls = <<FIX>> /\ arg.kind = "paragraph" /\ arg.ctx = "native") =>
           LET out == ret[2]
               b == Len(arg.before)
               a == Len(arg.after)
           IN  /\ Len(out) >= b + a
               /\ SubSeq(out, 1, b) = arg.before
               /\ SubSeq(out, Len(out) - a + 1, Len(out)) = arg.after

\* C28: after the pipeline on a part, the content placeholder that came
\* from $scroll.content or $!scroll.content in a paragraph stands at
\* paragraph level, and no content placeholder is left inside run text.
C28_ContentAtParagraphLevel ==
    (/\ calls = <<NORMALIZE, CONVERT, FIX>>
     /\ arg.kind = "paragraph" /\ arg.ctx = "legacy") =>
        /\ \E i \in 1..Len(ret[4]) : ret[4][i] = "{{p content }}"
        /\ \A i \in 1..Len(ret[4]) : ret[4][i] \notin {"{{", "content"}

\* C29: with placeholder conversion requested, a standard-format template
\* is passed through only when the pipeline would leave each of its
\* document/header/footer parts unchanged.
C29_PassThroughOnlyUnchanged ==
    (/\ pc = "body" /\ PassedThrough
     /\ conv.convert_placeholders
     /\ template_file.kind = "zip") =>
        \A n \in DOMAIN template_file.parts \cap xml_files :
            Decodes(template_file.parts[n]) =>
                SpecPipeline(decode(template_file.parts[n]))
                    = decode(template_file.parts[n])

\* C30: no step of acquisition, use and release deletes or changes the
\* original template file; release removes only the temporary directory
\* recorded at acquisition, and with no directory recorded it changes no
\* file and no directory.
C30_OriginalUntouched ==
    /\ [][template_file' = template_file]_vars
    /\ [][pc = "release" =>
            /\ tempdirs' = tempdirs \ {conv.temp_dir}
            /\ conv.temp_dir = "None" =>
                   /\ tempdirs' = tempdirs
                   /\ temp_file' = temp_file
                   /\ output_file' = output_file]_vars

C30_Witness ==
    /\ ScopeLeft
    /\ releases = 1
    /\ is_docm_file(template_path)
    /\ conv.temp_dir = TEMP_DIR
    /\ TEMP_DIR \notin tempdirs
    /\ temp_file = NoFile
    /\ template_file.kind = "zip"
    /\ VbaProject \in {template_file.parts[n] : n \in DOMAIN template_file.parts}

====
